---------------------------- MODULE Spec2Model ----------------------------
(* Model of the reading-quiz eligibility core                              *)
(*   eligibilityService.js : calculateEligibility, evaluateCondition,      *)
(*                           normalizeValue, decideFinalTypes              *)
(*   excelService.js       : getQuestionTypes, getTypeRequirements         *)
(* of its question service                                                 *)
(*   questionService.js    : generateQuestions, generateQuestionByType     *)
(* and of the calendar server                                              *)
(*   server.js             : POST /api/calendar/:date/schedule             *)
(* JavaScript values are tagged records; strings are TLA+ strings read     *)
(* character by character with SubSeq.                                     *)
EXTENDS Integers, Sequences, FiniteSets

VARIABLES
    pc,            \* position of the caller: "call" before any call; after a call
                   \* "done", "threw", or the name of the function that returned
    excelData,     \* policy data: questionTypes and typeRequirements
    textFeatures,  \* attribute record: feature name -> JS value
    eligibility,   \* eligibility map: type_id -> boolean
    options,       \* options argument of decideFinalTypes
    finalTypes,    \* list returned by decideFinalTypes
    cond,          \* arguments (feature, operator, value) of evaluateCondition
    condResult,    \* value returned by evaluateCondition
    typeDetails,   \* typeDetails of the object returned by determineQuestionTypes
    results,       \* the calls that have returned: function, arguments, value returned
    \* questionService.js
    typeIds,       \* typeIds argument of generateQuestions
    genOptions,    \* options argument of generateQuestions, handed to generateQuestionByType
    apiKey,        \* whether process.env.OPENAI_API_KEY is set
    openaiClient,  \* the module's client singleton: FALSE for null, TRUE once created
    gpc,           \* position inside generateQuestions / generateQuestionByType
    typeIndex,     \* number of type ids the for-of loop of generateQuestions has taken
    attempt,       \* loop counter of generateQuestionByType
    lastError,     \* lastError of generateQuestionByType
    responses,     \* what each attempt of the running generateQuestionByType call met
    settled,       \* what the generateQuestionByType call returned or threw, until the
                   \* awaiting generateQuestions takes it
    questions,     \* the results array of generateQuestions
    errors,        \* the errors array of generateQuestions
    summary,       \* summary of the object generateQuestions returns
    \* calendar-api server.js
    backend,       \* which server runs: the JSONBin one or the MongoDB one
    store,         \* the stored calendar data: date -> schedules
    handlers       \* the running POST /api/calendar/:date/schedule handlers

questionVars ==
    <<typeIds, genOptions, apiKey, openaiClient, gpc, typeIndex, attempt, lastError, responses,
      settled, questions, errors, summary>>

calendarVars == <<backend, store, handlers>>

coreVars ==
    <<pc, excelData, textFeatures, eligibility, options, finalTypes, cond, condResult,
      typeDetails, results>>

vars == <<coreVars, questionVars, calendarVars>>

-----------------------------------------------------------------------------
(* Bounds of the explored inputs *)

MaxCatalog == 2
MaxReqs == 2
MaxCapacity == 2
MaxPriority == 2
MaxQuestions == 2
MaxRetries == 1
MaxRequests == 2

-----------------------------------------------------------------------------
(* JavaScript values *)

Undefined == [t |-> "undefined"]
Null == [t |-> "null"]
NaN == [t |-> "nan"]
Bool(b) == [t |-> "boolean", b |-> b]
Num(n) == [t |-> "number", n |-> n]
Infinity(neg) == [t |-> "infinity", neg |-> neg]
Str(s) == [t |-> "string", s |-> s]
Arr(a) == [t |-> "array", a |-> a]

(* A finite number (a double) that is no integer of at most nine digits is *)
(* held as the decimal Number::toString writes it: the sign, the digits d  *)
(* (a string that neither starts nor ends with 0) and the position n of    *)
(* the point, the number being 0.d * 10^n. An integer of at most nine      *)
(* digits is Num, and -0 is not told from 0.                               *)
Decimal(neg, d, n) == [t |-> "decimal", neg |-> neg, d |-> d, n |-> n]

(* a method inherited from Object.prototype, and Object.prototype itself *)
Fn(name) == [t |-> "function", name |-> name]
ObjectPrototype == [t |-> "prototype"]

(* typeof v === 'number' *)
IsNumberType(v) == v.t \in {"number", "decimal", "infinity", "nan"}

CharAt(s, i) == SubSeq(s, i, i)

(* The characters a string of this module can hold, in the order of their  *)
(* UTF-16 code units: the units 1..95 and 97..255 (no grave accent), the   *)
(* units 128..255 of every row of 256 from U+0100 to U+FFFF outside the    *)
(* surrogates, and the surrogates of the same columns, which are written   *)
(* in pairs (high, low). U+0000 is the one character a string can hold     *)
(* that is in no table.                                                    *)
Latin1Low == "\t\n\f\r !\"#$%&'()*+,-./0123456789:;<=>?@ABCDEFGHIJKLMNOPQRSTUVWXYZ[\\]^_"

Latin1High == "abcdefghijklmnopqrstuvwxyz{|}~ ¡¢£¤¥¦§¨©ª«¬­®¯°±²³´µ¶·¸¹º»¼½¾¿ÀÁÂÃÄÅÆÇÈÉÊËÌÍÎÏÐÑÒÓÔÕÖ×ØÙÚÛÜÝÞßàáâãäåæçèéêëìíîïðñòóôõö÷øùúûüýþÿ"

BmpHigh == "ƀƁƂƃƄƅƆƇƈƉƊƋƌƍƎƏƐƑƒƓƔƕƖƗƘƙƚƛƜƝƞƟƠơƢƣƤƥƦƧƨƩƪƫƬƭƮƯưƱƲƳƴƵƶƷƸƹƺƻƼƽƾƿǀǁǂǃǄǅǆǇǈǉǊǋǌǍǎǏǐǑǒǓǔǕǖǗǘǙǚǛǜǝǞǟǠǡǢǣǤǥǦǧǨǩǪǫǬǭǮǯǰǱǲǳǴǵǶǷǸǹǺǻǼǽǾǿʀʁʂʃʄʅʆʇʈʉʊʋʌʍʎʏʐʑʒʓʔʕʖʗʘʙʚʛʜʝʞʟʠʡʢʣʤʥʦʧʨʩʪʫʬʭʮʯʰʱʲʳʴʵʶʷʸʹʺʻʼʽʾʿˀˁ˂˃˄˅ˆˇˈˉˊˋˌˍˎˏːˑ˒˓˔˕˖˗˘˙˚˛˜˝˞˟ˠˡˢˣˤ˥˦˧˨˩˪˫ˬ˭ˮ˯˰˱˲˳˴˵˶˷˸˹˺˻˼˽˾˿΀΁΂΃΄΅Ά·ΈΉΊ΋Ό΍ΎΏΐΑΒΓΔΕΖΗΘΙΚΛΜΝΞΟΠΡ΢ΣΤΥΦΧΨΩΪΫάέήίΰαβγδεζηθικλμνξοπρςστυφχψωϊϋόύώϏϐϑϒϓϔϕϖϗϘϙϚϛϜϝϞϟϠϡϢϣϤϥϦϧϨϩϪϫϬϭϮϯϰϱϲϳϴϵ϶ϷϸϹϺϻϼϽϾϿҀҁ҂҃҄҅҆҇҈҉ҊҋҌҍҎҏҐґҒғҔҕҖҗҘҙҚқҜҝҞҟҠҡҢңҤҥҦҧҨҩҪҫҬҭҮүҰұҲҳҴҵҶҷҸҹҺһҼҽҾҿӀӁӂӃӄӅӆӇӈӉӊӋӌӍӎӏӐӑӒӓӔӕӖӗӘәӚӛӜӝӞӟӠӡӢӣӤӥӦӧӨөӪӫӬӭӮӯӰӱӲӳӴӵӶӷӸӹӺӻӼӽӾӿրցւփքօֆևֈ։֊֋֌֍֎֏֐ְֱֲֳִֵֶַָֹֺֻּֽ֑֖֛֢֣֤֥֦֧֪֚֭֮֒֓֔֕֗֘֙֜֝֞֟֠֡֨֩֫֬֯־ֿ׀ׁׂ׃ׅׄ׆ׇ׈׉׊׋׌׍׎׏אבגדהוזחטיךכלםמןנסעףפץצקרשת׫׬׭׮ׯװױײ׳״׵׶׷׸׹׺׻׼׽׾׿ڀځڂڃڄڅچڇڈډڊڋڌڍڎڏڐڑڒړڔڕږڗژڙښڛڜڝڞڟڠڡڢڣڤڥڦڧڨکڪګڬڭڮگڰڱڲڳڴڵڶڷڸڹںڻڼڽھڿۀہۂۃۄۅۆۇۈۉۊۋیۍێۏېۑےۓ۔ەۖۗۘۙۚۛۜ۝۞ۣ۟۠ۡۢۤۥۦۧۨ۩۪ۭ۫۬ۮۯ۰۱۲۳۴۵۶۷۸۹ۺۻۼ۽۾ۿހށނރބޅކއވމފދތލގޏސޑޒޓޔޕޖޗޘޙޚޛޜޝޞޟޠޡޢޣޤޥަާިީުޫެޭޮޯްޱ޲޳޴޵޶޷޸޹޺޻޼޽޾޿߀߁߂߃߄߅߆߇߈߉ߊߋߌߍߎߏߐߑߒߓߔߕߖߗߘߙߚߛߜߝߞߟߠߡߢߣߤߥߦߧߨߩߪ߲߫߬߭߮߯߰߱߳ߴߵ߶߷߸߹ߺ߻߼߽߾߿ࢀࢁࢂࢃࢄࢅࢆࢇ࢈ࢉࢊࢋࢌࢍࢎ࢏࢐࢑࢒࢓࢔࢕࢖࢙࢚࢛ࢗ࢘࢜࢝࢞࢟ࢠࢡࢢࢣࢤࢥࢦࢧࢨࢩࢪࢫࢬࢭࢮࢯࢰࢱࢲࢳࢴࢵࢶࢷࢸࢹࢺࢻࢼࢽࢾࢿࣀࣁࣂࣃࣄࣅࣆࣇࣈࣉ࣏࣐࣑࣒࣓࣊࣋࣌࣍࣎ࣔࣕࣖࣗࣘࣙࣚࣛࣜࣝࣞࣟ࣠࣡࣢ࣰࣱࣲࣣࣦࣩ࣭࣮࣯ࣶࣹࣺࣤࣥࣧࣨ࣪࣫࣬ࣳࣴࣵࣷࣸࣻࣼࣽࣾࣿঀঁংঃ঄অআইঈউঊঋঌ঍঎এঐ঑঒ওঔকখগঘঙচছজঝঞটঠডঢণতথদধন঩পফবভমযর঱ল঳঴঵শষসহ঺঻়ঽািীুূৃৄ৅৆েৈ৉৊োৌ্ৎ৏৐৑৒৓৔৕৖ৗ৘৙৚৛ড়ঢ়৞য়ৠৡৢৣ৤৥০১২৩৪৫৬৭৮৯ৰৱ৲৳৴৵৶৷৸৹৺৻ৼ৽৾৿઀ઁંઃ઄અઆઇઈઉઊઋઌઍ઎એઐઑ઒ઓઔકખગઘઙચછજઝઞટઠડઢણતથદધન઩પફબભમયર઱લળ઴વશષસહ઺઻઼ઽાિીુૂૃૄૅ૆ેૈૉ૊ોૌ્૎૏ૐ૑૒૓૔૕૖૗૘૙૚૛૜૝૞૟ૠૡૢૣ૤૥૦૧૨૩૪૫૬૭૮૯૰૱૲૳૴૵૶૷૸ૹૺૻૼ૽૾૿஀஁ஂஃ஄அஆஇஈஉஊ஋஌஍எஏஐ஑ஒஓஔக஖஗஘ஙச஛ஜ஝ஞட஠஡஢ணத஥஦஧நனப஫஬஭மயரறலளழவஶஷஸஹ஺஻஼஽ாிீுூ௃௄௅ெேை௉ொோௌ்௎௏ௐ௑௒௓௔௕௖ௗ௘௙௚௛௜௝௞௟௠௡௢௣௤௥௦௧௨௩௪௫௬௭௮௯௰௱௲௳௴௵௶௷௸௹௺௻௼௽௾௿ಀಁಂಃ಄ಅಆಇಈಉಊಋಌ಍ಎಏಐ಑ಒಓಔಕಖಗಘಙಚಛಜಝಞಟಠಡಢಣತಥದಧನ಩ಪಫಬಭಮಯರಱಲಳ಴ವಶಷಸಹ಺಻಼ಽಾಿೀುೂೃೄ೅ೆೇೈ೉ೊೋೌ್೎೏೐೑೒೓೔ೕೖ೗೘೙೚೛೜ೝೞ೟ೠೡೢೣ೤೥೦೧೨೩೪೫೬೭೮೯೰ೱೲೳ೴೵೶೷೸೹೺೻೼೽೾೿඀ඁංඃ඄අආඇඈඉඊඋඌඍඎඏඐඑඒඓඔඕඖ඗඘඙කඛගඝඞඟචඡජඣඤඥඦටඨඩඪණඬතථදධන඲ඳපඵබභමඹයර඼ල඾඿වශෂසහළෆ෇෈෉්෋෌෍෎ාැෑිීු෕ූ෗ෘෙේෛොෝෞෟ෠෡෢෣෤෥෦෧෨෩෪෫෬෭෮෯෰෱ෲෳ෴෵෶෷෸෹෺෻෼෽෾෿຀ກຂ຃ຄ຅ຆງຈຉຊ຋ຌຍຎຏຐຑຒຓດຕຖທຘນບປຜຝພຟຠມຢຣ຤ລ຦ວຨຩສຫຬອຮຯະັາຳິີຶື຺ຸູົຼຽ຾຿ເແໂໃໄ໅ໆ໇່້໊໋໌ໍ໎໏໐໑໒໓໔໕໖໗໘໙໚໛ໜໝໞໟ໠໡໢໣໤໥໦໧໨໩໪໫໬໭໮໯໰໱໲໳໴໵໶໷໸໹໺໻໼໽໾໿྄ཱྀྀྂྃ྅྆྇ྈྉྊྋྌྍྎྏྐྑྒྒྷྔྕྖྗ྘ྙྚྛྜྜྷྞྟྠྡྡྷྣྤྥྦྦྷྨྩྪྫྫྷྭྮྯྰྱྲླྴྵྶྷྸྐྵྺྻྼ྽྾྿࿀࿁࿂࿃࿄࿅࿆࿇࿈࿉࿊࿋࿌࿍࿎࿏࿐࿑࿒࿓࿔࿕࿖࿗࿘࿙࿚࿛࿜࿝࿞࿟࿠࿡࿢࿣࿤࿥࿦࿧࿨࿩࿪࿫࿬࿭࿮࿯࿰࿱࿲࿳࿴࿵࿶࿷࿸࿹࿺࿻࿼࿽࿾࿿ႀႁႂႃႄႅႆႇႈႉႊႋႌႍႎႏ႐႑႒႓႔႕႖႗႘႙ႚႛႜႝ႞႟ႠႡႢႣႤႥႦႧႨႩႪႫႬႭႮႯႰႱႲႳႴႵႶႷႸႹႺႻႼႽႾႿჀჁჂჃჄჅ჆Ⴧ჈჉჊჋჌Ⴭ჎჏აბგდევზთიკლმნოპჟრსტუფქღყშჩცძწჭხჯჰჱჲჳჴჵჶჷჸჹჺ჻ჼჽჾჿᆀᆁᆂᆃᆄᆅᆆᆇᆈᆉᆊᆋᆌᆍᆎᆏᆐᆑᆒᆓᆔᆕᆖᆗᆘᆙᆚᆛᆜᆝᆞᆟᆠᆡᆢᆣᆤᆥᆦᆧᆨᆩᆪᆫᆬᆭᆮᆯᆰᆱᆲᆳᆴᆵᆶᆷᆸᆹᆺᆻᆼᆽᆾᆿᇀᇁᇂᇃᇄᇅᇆᇇᇈᇉᇊᇋᇌᇍᇎᇏᇐᇑᇒᇓᇔᇕᇖᇗᇘᇙᇚᇛᇜᇝᇞᇟᇠᇡᇢᇣᇤᇥᇦᇧᇨᇩᇪᇫᇬᇭᇮᇯᇰᇱᇲᇳᇴᇵᇶᇷᇸᇹᇺᇻᇼᇽᇾᇿኀኁኂኃኄኅኆኇኈ኉ኊኋኌኍ኎኏ነኑኒናኔንኖኗኘኙኚኛኜኝኞኟአኡኢኣኤእኦኧከኩኪካኬክኮኯኰ኱ኲኳኴኵ኶኷ኸኹኺኻኼኽኾ኿ዀ዁ዂዃዄዅ዆዇ወዉዊዋዌውዎዏዐዑዒዓዔዕዖ዗ዘዙዚዛዜዝዞዟዠዡዢዣዤዥዦዧየዩዪያዬይዮዯደዱዲዳዴድዶዷዸዹዺዻዼዽዾዿᎀᎁᎂᎃᎄᎅᎆᎇᎈᎉᎊᎋᎌᎍᎎᎏ᎐᎑᎒᎓᎔᎕᎖᎗᎘᎙᎚᎛᎜᎝᎞᎟ᎠᎡᎢᎣᎤᎥᎦᎧᎨᎩᎪᎫᎬᎭᎮᎯᎰᎱᎲᎳᎴᎵᎶᎷᎸᎹᎺᎻᎼᎽᎾᎿᏀᏁᏂᏃᏄᏅᏆᏇᏈᏉᏊᏋᏌᏍᏎᏏᏐᏑᏒᏓᏔᏕᏖᏗᏘᏙᏚᏛᏜᏝᏞᏟᏠᏡᏢᏣᏤᏥᏦᏧᏨᏩᏪᏫᏬᏭᏮᏯᏰᏱᏲᏳᏴᏵ᏶᏷ᏸᏹᏺᏻᏼᏽ᏾᏿ᒀᒁᒂᒃᒄᒅᒆᒇᒈᒉᒊᒋᒌᒍᒎᒏᒐᒑᒒᒓᒔᒕᒖᒗᒘᒙᒚᒛᒜᒝᒞᒟᒠᒡᒢᒣᒤᒥᒦᒧᒨᒩᒪᒫᒬᒭᒮᒯᒰᒱᒲᒳᒴᒵᒶᒷᒸᒹᒺᒻᒼᒽᒾᒿᓀᓁᓂᓃᓄᓅᓆᓇᓈᓉᓊᓋᓌᓍᓎᓏᓐᓑᓒᓓᓔᓕᓖᓗᓘᓙᓚᓛᓜᓝᓞᓟᓠᓡᓢᓣᓤᓥᓦᓧᓨᓩᓪᓫᓬᓭᓮᓯᓰᓱᓲᓳᓴᓵᓶᓷᓸᓹᓺᓻᓼᓽᓾᓿᖀᖁᖂᖃᖄᖅᖆᖇᖈᖉᖊᖋᖌᖍᖎᖏᖐᖑᖒᖓᖔᖕᖖᖗᖘᖙᖚᖛᖜᖝᖞᖟᖠᖡᖢᖣᖤᖥᖦᖧᖨᖩᖪᖫᖬᖭᖮᖯᖰᖱᖲᖳᖴᖵᖶᖷᖸᖹᖺᖻᖼᖽᖾᖿᗀᗁᗂᗃᗄᗅᗆᗇᗈᗉᗊᗋᗌᗍᗎᗏᗐᗑᗒᗓᗔᗕᗖᗗᗘᗙᗚᗛᗜᗝᗞᗟᗠᗡᗢᗣᗤᗥᗦᗧᗨᗩᗪᗫᗬᗭᗮᗯᗰᗱᗲᗳᗴᗵᗶᗷᗸᗹᗺᗻᗼᗽᗾᗿ ᚁᚂᚃᚄᚅᚆᚇᚈᚉᚊᚋᚌᚍᚎᚏᚐᚑᚒᚓᚔᚕᚖᚗᚘᚙᚚ᚛᚜᚝᚞᚟ᚠᚡᚢᚣᚤᚥᚦᚧᚨᚩᚪᚫᚬᚭᚮᚯᚰᚱᚲᚳᚴᚵᚶᚷᚸᚹᚺᚻᚼᚽᚾᚿᛀᛁᛂᛃᛄᛅᛆᛇᛈᛉᛊᛋᛌᛍᛎᛏᛐᛑᛒᛓᛔᛕᛖᛗᛘᛙᛚᛛᛜᛝᛞᛟᛠᛡᛢᛣᛤᛥᛦᛧᛨᛩᛪ᛫᛬᛭ᛮᛯᛰᛱᛲᛳᛴᛵᛶᛷᛸ᛹᛺᛻᛼᛽᛾᛿កខគឃងចឆជឈញដឋឌឍណតថទធនបផពភមយរលវឝឞសហឡអឣឤឥឦឧឨឩឪឫឬឭឮឯឰឱឲឳ឴឵ាិីឹឺុូួើឿៀេែៃោៅំះៈ៉៊់៌៍៎៏័៑្៓។៕៖ៗ៘៙៚៛ៜ៝៞៟០១២៣៤៥៦៧៨៩៪៫៬៭៮៯៰៱៲៳៴៵៶៷៸៹៺៻៼៽៾៿ᢀᢁᢂᢃᢄᢅᢆᢇᢈᢉᢊᢋᢌᢍᢎᢏᢐᢑᢒᢓᢔᢕᢖᢗᢘᢙᢚᢛᢜᢝᢞᢟᢠᢡᢢᢣᢤᢥᢦᢧᢨᢩᢪ᢫᢬᢭᢮᢯ᢰᢱᢲᢳᢴᢵᢶᢷᢸᢹᢺᢻᢼᢽᢾᢿᣀᣁᣂᣃᣄᣅᣆᣇᣈᣉᣊᣋᣌᣍᣎᣏᣐᣑᣒᣓᣔᣕᣖᣗᣘᣙᣚᣛᣜᣝᣞᣟᣠᣡᣢᣣᣤᣥᣦᣧᣨᣩᣪᣫᣬᣭᣮᣯᣰᣱᣲᣳᣴᣵ᣶᣷᣸᣹᣺᣻᣼᣽᣾᣿ᦀᦁᦂᦃᦄᦅᦆᦇᦈᦉᦊᦋᦌᦍᦎᦏᦐᦑᦒᦓᦔᦕᦖᦗᦘᦙᦚᦛᦜᦝᦞᦟᦠᦡᦢᦣᦤᦥᦦᦧᦨᦩᦪᦫ᦬᦭᦮᦯ᦰᦱᦲᦳᦴᦵᦶᦷᦸᦹᦺᦻᦼᦽᦾᦿᧀᧁᧂᧃᧄᧅᧆᧇᧈᧉ᧊᧋᧌᧍᧎᧏᧐᧑᧒᧓᧔᧕᧖᧗᧘᧙᧚᧛᧜᧝᧞᧟᧠᧡᧢᧣᧤᧥᧦᧧᧨᧩᧪᧫᧬᧭᧮᧯᧰᧱᧲᧳᧴᧵᧶᧷᧸᧹᧺᧻᧼᧽᧾᧿᪀᪁᪂᪃᪄᪅᪆᪇᪈᪉᪊᪋᪌᪍᪎᪏᪐᪑᪒᪓᪔᪕᪖᪗᪘᪙᪚᪛᪜᪝᪞᪟᪠᪡᪢᪣᪤᪥᪦ᪧ᪨᪩᪪᪫᪬᪭᪮᪯᪵᪶᪷᪸᪹᪺᪽᪰᪱᪲᪳᪴᪻᪼᪾ᪿᫀ᫃᫄᫊᫁᫂᫅᫆᫇᫈᫉᫋ᫌᫍᫎ᫏᫐᫑᫒᫓᫔᫕᫖᫗᫘᫙᫚᫛᫜᫝᫞᫟᫠᫡᫢᫣᫤᫥᫦᫧᫨᫩᫪᫫᫬᫭᫮᫯᫰᫱᫲᫳᫴᫵᫶᫷᫸᫹᫺᫻᫼᫽᫾᫿ᮀᮁᮂᮃᮄᮅᮆᮇᮈᮉᮊᮋᮌᮍᮎᮏᮐᮑᮒᮓᮔᮕᮖᮗᮘᮙᮚᮛᮜᮝᮞᮟᮠᮡᮢᮣᮤᮥᮦᮧᮨᮩ᮪᮫ᮬᮭᮮᮯ᮰᮱᮲᮳᮴᮵᮶᮷᮸᮹ᮺᮻᮼᮽᮾᮿᯀᯁᯂᯃᯄᯅᯆᯇᯈᯉᯊᯋᯌᯍᯎᯏᯐᯑᯒᯓᯔᯕᯖᯗᯘᯙᯚᯛᯜᯝᯞᯟᯠᯡᯢᯣᯤᯥ᯦ᯧᯨᯩᯪᯫᯬᯭᯮᯯᯰᯱ᯲᯳᯴᯵᯶᯷᯸᯹᯺᯻᯼᯽᯾᯿ᲀᲁᲂᲃᲄᲅᲆᲇᲈᲉᲊ᲋᲌᲍᲎᲏ᲐᲑᲒᲓᲔᲕᲖᲗᲘᲙᲚᲛᲜᲝᲞᲟᲠᲡᲢᲣᲤᲥᲦᲧᲨᲩᲪᲫᲬᲭᲮᲯᲰᲱᲲᲳᲴᲵᲶᲷᲸᲹᲺ᲻᲼ᲽᲾᲿ᳀᳁᳂᳃᳄᳅᳆᳇᳈᳉᳊᳋᳌᳍᳎᳏᳐᳑᳒᳓᳔᳕᳖᳗᳘᳙᳜᳝᳞᳟᳚᳛᳠᳡᳢᳣᳤᳥᳦᳧᳨ᳩᳪᳫᳬ᳭ᳮᳯᳰᳱᳲᳳ᳴ᳵᳶ᳷᳸᳹ᳺ᳻᳼᳽᳾᳿ᶀᶁᶂᶃᶄᶅᶆᶇᶈᶉᶊᶋᶌᶍᶎᶏᶐᶑᶒᶓᶔᶕᶖᶗᶘᶙᶚᶛᶜᶝᶞᶟᶠᶡᶢᶣᶤᶥᶦᶧᶨᶩᶪᶫᶬᶭᶮᶯᶰᶱᶲᶳᶴᶵᶶᶷᶸᶹᶺᶻᶼᶽᶾᶿ᷐᷎᷺᷂᷊᷏᷹᷽᷿᷷᷸᷀᷁᷃᷄᷅᷆᷇᷈᷉᷋᷌᷑᷒ᷓᷔᷕᷖᷗᷘᷙᷚᷛᷜᷝᷞᷟᷠᷡᷢᷣᷤᷥᷦᷧᷨᷩᷪᷫᷬᷭᷮᷯᷰᷱᷲᷳᷴ᷵᷻᷾᷶᷼᷍ẀẁẂẃẄẅẆẇẈẉẊẋẌẍẎẏẐẑẒẓẔẕẖẗẘẙẚẛẜẝẞẟẠạẢảẤấẦầẨẩẪẫẬậẮắẰằẲẳẴẵẶặẸẹẺẻẼẽẾếỀềỂểỄễỆệỈỉỊịỌọỎỏỐốỒồỔổỖỗỘộỚớỜờỞởỠỡỢợỤụỦủỨứỪừỬửỮữỰựỲỳỴỵỶỷỸỹỺỻỼỽỾỿᾀᾁᾂᾃᾄᾅᾆᾇᾈᾉᾊᾋᾌᾍᾎᾏᾐᾑᾒᾓᾔᾕᾖᾗᾘᾙᾚᾛᾜᾝᾞᾟᾠᾡᾢᾣᾤᾥᾦᾧᾨᾩᾪᾫᾬᾭᾮᾯᾰᾱᾲᾳᾴ᾵ᾶᾷᾸᾹᾺΆᾼ᾽ι᾿῀῁ῂῃῄ῅ῆῇῈΈῊΉῌ῍῎῏ῐῑῒΐ῔῕ῖῗῘῙῚΊ῜῝῞῟ῠῡῢΰῤῥῦῧῨῩῪΎῬ῭΅`῰῱ῲῳῴ῵ῶῷῸΌῺΏῼ´῾῿₀₁₂₃₄₅₆₇₈₉₊₋₌₍₎₏ₐₑₒₓₔₕₖₗₘₙₚₛₜ₝₞₟₠₡₢₣₤₥₦₧₨₩₪₫€₭₮₯₰₱₲₳₴₵₶₷₸₹₺₻₼₽₾₿⃀⃁⃂⃃⃄⃅⃆⃇⃈⃉⃊⃋⃌⃍⃎⃏⃒⃓⃘⃙⃚⃐⃑⃔⃕⃖⃗⃛⃜⃝⃞⃟⃠⃡⃢⃣⃤⃥⃦⃪⃫⃨⃬⃭⃮⃯⃧⃩⃰⃱⃲⃳⃴⃵⃶⃷⃸⃹⃺⃻⃼⃽⃾⃿ↀↁↂↃↄↅↆↇↈ↉↊↋↌↍↎↏←↑→↓↔↕↖↗↘↙↚↛↜↝↞↟↠↡↢↣↤↥↦↧↨↩↪↫↬↭↮↯↰↱↲↳↴↵↶↷↸↹↺↻↼↽↾↿⇀⇁⇂⇃⇄⇅⇆⇇⇈⇉⇊⇋⇌⇍⇎⇏⇐⇑⇒⇓⇔⇕⇖⇗⇘⇙⇚⇛⇜⇝⇞⇟⇠⇡⇢⇣⇤⇥⇦⇧⇨⇩⇪⇫⇬⇭⇮⇯⇰⇱⇲⇳⇴⇵⇶⇷⇸⇹⇺⇻⇼⇽⇾⇿⊀⊁⊂⊃⊄⊅⊆⊇⊈⊉⊊⊋⊌⊍⊎⊏⊐⊑⊒⊓⊔⊕⊖⊗⊘⊙⊚⊛⊜⊝⊞⊟⊠⊡⊢⊣⊤⊥⊦⊧⊨⊩⊪⊫⊬⊭⊮⊯⊰⊱⊲⊳⊴⊵⊶⊷⊸⊹⊺⊻⊼⊽⊾⊿⋀⋁⋂⋃⋄⋅⋆⋇⋈⋉⋊⋋⋌⋍⋎⋏⋐⋑⋒⋓⋔⋕⋖⋗⋘⋙⋚⋛⋜⋝⋞⋟⋠⋡⋢⋣⋤⋥⋦⋧⋨⋩⋪⋫⋬⋭⋮⋯⋰⋱⋲⋳⋴⋵⋶⋷⋸⋹⋺⋻⋼⋽⋾⋿⎀⎁⎂⎃⎄⎅⎆⎇⎈⎉⎊⎋⎌⎍⎎⎏⎐⎑⎒⎓⎔⎕⎖⎗⎘⎙⎚⎛⎜⎝⎞⎟⎠⎡⎢⎣⎤⎥⎦⎧⎨⎩⎪⎫⎬⎭⎮⎯⎰⎱⎲⎳⎴⎵⎶⎷⎸⎹⎺⎻⎼⎽⎾⎿⏀⏁⏂⏃⏄⏅⏆⏇⏈⏉⏊⏋⏌⏍⏎⏏⏐⏑⏒⏓⏔⏕⏖⏗⏘⏙⏚⏛⏜⏝⏞⏟⏠⏡⏢⏣⏤⏥⏦⏧⏨⏩⏪⏫⏬⏭⏮⏯⏰⏱⏲⏳⏴⏵⏶⏷⏸⏹⏺⏻⏼⏽⏾⏿⒀⒁⒂⒃⒄⒅⒆⒇⒈⒉⒊⒋⒌⒍⒎⒏⒐⒑⒒⒓⒔⒕⒖⒗⒘⒙⒚⒛⒜⒝⒞⒟⒠⒡⒢⒣⒤⒥⒦⒧⒨⒩⒪⒫⒬⒭⒮⒯⒰⒱⒲⒳⒴⒵ⒶⒷⒸⒹⒺⒻⒼⒽⒾⒿⓀⓁⓂⓃⓄⓅⓆⓇⓈⓉⓊⓋⓌⓍⓎⓏⓐⓑⓒⓓⓔⓕⓖⓗⓘⓙⓚⓛⓜⓝⓞⓟⓠⓡⓢⓣⓤⓥⓦⓧⓨⓩ⓪⓫⓬⓭⓮⓯⓰⓱⓲⓳⓴⓵⓶⓷⓸⓹⓺⓻⓼⓽⓾⓿▀▁▂▃▄▅▆▇█▉▊▋▌▍▎▏▐░▒▓▔▕▖▗▘▙▚▛▜▝▞▟■□▢▣▤▥▦▧▨▩▪▫▬▭▮▯▰▱▲△▴▵▶▷▸▹►▻▼▽▾▿◀◁◂◃◄◅◆◇◈◉◊○◌◍◎●◐◑◒◓◔◕◖◗◘◙◚◛◜◝◞◟◠◡◢◣◤◥◦◧◨◩◪◫◬◭◮◯◰◱◲◳◴◵◶◷◸◹◺◻◼◽◾◿⚀⚁⚂⚃⚄⚅⚆⚇⚈⚉⚊⚋⚌⚍⚎⚏⚐⚑⚒⚓⚔⚕⚖⚗⚘⚙⚚⚛⚜⚝⚞⚟⚠⚡⚢⚣⚤⚥⚦⚧⚨⚩⚪⚫⚬⚭⚮⚯⚰⚱⚲⚳⚴⚵⚶⚷⚸⚹⚺⚻⚼⚽⚾⚿⛀⛁⛂⛃⛄⛅⛆⛇⛈⛉⛊⛋⛌⛍⛎⛏⛐⛑⛒⛓⛔⛕⛖⛗⛘⛙⛚⛛⛜⛝⛞⛟⛠⛡⛢⛣⛤⛥⛦⛧⛨⛩⛪⛫⛬⛭⛮⛯⛰⛱⛲⛳⛴⛵⛶⛷⛸⛹⛺⛻⛼⛽⛾⛿➀➁➂➃➄➅➆➇➈➉➊➋➌➍➎➏➐➑➒➓➔➕➖➗➘➙➚➛➜➝➞➟➠➡➢➣➤➥➦➧➨➩➪➫➬➭➮➯➰➱➲➳➴➵➶➷➸➹➺➻➼➽➾➿⟀⟁⟂⟃⟄⟅⟆⟇⟈⟉⟊⟋⟌⟍⟎⟏⟐⟑⟒⟓⟔⟕⟖⟗⟘⟙⟚⟛⟜⟝⟞⟟⟠⟡⟢⟣⟤⟥⟦⟧⟨⟩⟪⟫⟬⟭⟮⟯⟰⟱⟲⟳⟴⟵⟶⟷⟸⟹⟺⟻⟼⟽⟾⟿⢀⢁⢂⢃⢄⢅⢆⢇⢈⢉⢊⢋⢌⢍⢎⢏⢐⢑⢒⢓⢔⢕⢖⢗⢘⢙⢚⢛⢜⢝⢞⢟⢠⢡⢢⢣⢤⢥⢦⢧⢨⢩⢪⢫⢬⢭⢮⢯⢰⢱⢲⢳⢴⢵⢶⢷⢸⢹⢺⢻⢼⢽⢾⢿⣀⣁⣂⣃⣄⣅⣆⣇⣈⣉⣊⣋⣌⣍⣎⣏⣐⣑⣒⣓⣔⣕⣖⣗⣘⣙⣚⣛⣜⣝⣞⣟⣠⣡⣢⣣⣤⣥⣦⣧⣨⣩⣪⣫⣬⣭⣮⣯⣰⣱⣲⣳⣴⣵⣶⣷⣸⣹⣺⣻⣼⣽⣾⣿⦀⦁⦂⦃⦄⦅⦆⦇⦈⦉⦊⦋⦌⦍⦎⦏⦐⦑⦒⦓⦔⦕⦖⦗⦘⦙⦚⦛⦜⦝⦞⦟⦠⦡⦢⦣⦤⦥⦦⦧⦨⦩⦪⦫⦬⦭⦮⦯⦰⦱⦲⦳⦴⦵⦶⦷⦸⦹⦺⦻⦼⦽⦾⦿⧀⧁⧂⧃⧄⧅⧆⧇⧈⧉⧊⧋⧌⧍⧎⧏⧐⧑⧒⧓⧔⧕⧖⧗⧘⧙⧚⧛⧜⧝⧞⧟⧠⧡⧢⧣⧤⧥⧦⧧⧨⧩⧪⧫⧬⧭⧮⧯⧰⧱⧲⧳⧴⧵⧶⧷⧸⧹⧺⧻⧼⧽⧾⧿⪀⪁⪂⪃⪄⪅⪆⪇⪈⪉⪊⪋⪌⪍⪎⪏⪐⪑⪒⪓⪔⪕⪖⪗⪘⪙⪚⪛⪜⪝⪞⪟⪠⪡⪢⪣⪤⪥⪦⪧⪨⪩⪪⪫⪬⪭⪮⪯⪰⪱⪲⪳⪴⪵⪶⪷⪸⪹⪺⪻⪼⪽⪾⪿⫀⫁⫂⫃⫄⫅⫆⫇⫈⫉⫊⫋⫌⫍⫎⫏⫐⫑⫒⫓⫔⫕⫖⫗⫘⫙⫚⫛⫝̸⫝⫞⫟⫠⫡⫢⫣⫤⫥⫦⫧⫨⫩⫪⫫⫬⫭⫮⫯⫰⫱⫲⫳⫴⫵⫶⫷⫸⫹⫺⫻⫼⫽⫾⫿⮀⮁⮂⮃⮄⮅⮆⮇⮈⮉⮊⮋⮌⮍⮎⮏⮐⮑⮒⮓⮔⮕⮖⮗⮘⮙⮚⮛⮜⮝⮞⮟⮠⮡⮢⮣⮤⮥⮦⮧⮨⮩⮪⮫⮬⮭⮮⮯⮰⮱⮲⮳⮴⮵⮶⮷⮸⮹⮺⮻⮼⮽⮾⮿⯀⯁⯂⯃⯄⯅⯆⯇⯈⯉⯊⯋⯌⯍⯎⯏⯐⯑⯒⯓⯔⯕⯖⯗⯘⯙⯚⯛⯜⯝⯞⯟⯠⯡⯢⯣⯤⯥⯦⯧⯨⯩⯪⯫⯬⯭⯮⯯⯰⯱⯲⯳⯴⯵⯶⯷⯸⯹⯺⯻⯼⯽⯾⯿ⲀⲁⲂⲃⲄⲅⲆⲇⲈⲉⲊⲋⲌⲍⲎⲏⲐⲑⲒⲓⲔⲕⲖⲗⲘⲙⲚⲛⲜⲝⲞⲟⲠⲡⲢⲣⲤⲥⲦⲧⲨⲩⲪⲫⲬⲭⲮⲯⲰⲱⲲⲳⲴⲵⲶⲷⲸⲹⲺⲻⲼⲽⲾⲿⳀⳁⳂⳃⳄⳅⳆⳇⳈⳉⳊⳋⳌⳍⳎⳏⳐⳑⳒⳓⳔⳕⳖⳗⳘⳙⳚⳛⳜⳝⳞⳟⳠⳡⳢⳣⳤ⳥⳦⳧⳨⳩⳪ⳫⳬⳭⳮ⳯⳰⳱Ⳳⳳ⳴⳵⳶⳷⳸⳹⳺⳻⳼⳽⳾⳿ⶀⶁⶂⶃⶄⶅⶆⶇⶈⶉⶊⶋⶌⶍⶎⶏⶐⶑⶒⶓⶔⶕⶖ⶗⶘⶙⶚⶛⶜⶝⶞⶟ⶠⶡⶢⶣⶤⶥⶦ⶧ⶨⶩⶪⶫⶬⶭⶮ⶯ⶰⶱⶲⶳⶴⶵⶶ⶷ⶸⶹⶺⶻⶼⶽⶾ⶿ⷀⷁⷂⷃⷄⷅⷆ⷇ⷈⷉⷊⷋⷌⷍⷎ⷏ⷐⷑⷒⷓⷔⷕⷖ⷗ⷘⷙⷚⷛⷜⷝⷞ⷟ⷠⷡⷢⷣⷤⷥⷦⷧⷨⷩⷪⷫⷬⷭⷮⷯⷰⷱⷲⷳⷴⷵⷶⷷⷸⷹⷺⷻⷼⷽⷾⷿ⺀⺁⺂⺃⺄⺅⺆⺇⺈⺉⺊⺋⺌⺍⺎⺏⺐⺑⺒⺓⺔⺕⺖⺗⺘⺙⺚⺛⺜⺝⺞⺟⺠⺡⺢⺣⺤⺥⺦⺧⺨⺩⺪⺫⺬⺭⺮⺯⺰⺱⺲⺳⺴⺵⺶⺷⺸⺹⺺⺻⺼⺽⺾⺿⻀⻁⻂⻃⻄⻅⻆⻇⻈⻉⻊⻋⻌⻍⻎⻏⻐⻑⻒⻓⻔⻕⻖⻗⻘⻙⻚⻛⻜⻝⻞⻟⻠⻡⻢⻣⻤⻥⻦⻧⻨⻩⻪⻫⻬⻭⻮⻯⻰⻱⻲⻳⻴⻵⻶⻷⻸⻹⻺⻻⻼⻽⻾⻿⾀⾁⾂⾃⾄⾅⾆⾇⾈⾉⾊⾋⾌⾍⾎⾏⾐⾑⾒⾓⾔⾕⾖⾗⾘⾙⾚⾛⾜⾝⾞⾟⾠⾡⾢⾣⾤⾥⾦⾧⾨⾩⾪⾫⾬⾭⾮⾯⾰⾱⾲⾳⾴⾵⾶⾷⾸⾹⾺⾻⾼⾽⾾⾿⿀⿁⿂⿃⿄⿅⿆⿇⿈⿉⿊⿋⿌⿍⿎⿏⿐⿑⿒⿓⿔⿕⿖⿗⿘⿙⿚⿛⿜⿝⿞⿟⿠⿡⿢⿣⿤⿥⿦⿧⿨⿩⿪⿫⿬⿭⿮⿯⿰⿱⿲⿳⿴⿵⿶⿷⿸⿹⿺⿻⿼⿽⿾⿿むめもゃやゅゆょよらりるれろゎわゐゑをんゔゕゖ゗゘゙゚゛゜ゝゞゟ゠ァアィイゥウェエォオカガキギクグケゲコゴサザシジスズセゼソゾタダチヂッツヅテデトドナニヌネノハバパヒビピフブプヘベペホボポマミムメモャヤュユョヨラリルレロヮワヰヱヲンヴヵヶヷヸヹヺ・ーヽヾヿㆀㆁㆂㆃㆄㆅㆆㆇㆈㆉㆊㆋㆌㆍㆎ㆏㆐㆑㆒㆓㆔㆕㆖㆗㆘㆙㆚㆛㆜㆝㆞㆟ㆠㆡㆢㆣㆤㆥㆦㆧㆨㆩㆪㆫㆬㆭㆮㆯㆰㆱㆲㆳㆴㆵㆶㆷㆸㆹㆺㆻㆼㆽㆾㆿ㇀㇁㇂㇃㇄㇅㇆㇇㇈㇉㇊㇋㇌㇍㇎㇏㇐㇑㇒㇓㇔㇕㇖㇗㇘㇙㇚㇛㇜㇝㇞㇟㇠㇡㇢㇣㇤㇥㇦㇧㇨㇩㇪㇫㇬㇭㇮㇯ㇰㇱㇲㇳㇴㇵㇶㇷㇸㇹㇺㇻㇼㇽㇾㇿ㊀㊁㊂㊃㊄㊅㊆㊇㊈㊉㊊㊋㊌㊍㊎㊏㊐㊑㊒㊓㊔㊕㊖㊗㊘㊙㊚㊛㊜㊝㊞㊟㊠㊡㊢㊣㊤㊥㊦㊧㊨㊩㊪㊫㊬㊭㊮㊯㊰㊱㊲㊳㊴㊵㊶㊷㊸㊹㊺㊻㊼㊽㊾㊿㋀㋁㋂㋃㋄㋅㋆㋇㋈㋉㋊㋋㋌㋍㋎㋏㋐㋑㋒㋓㋔㋕㋖㋗㋘㋙㋚㋛㋜㋝㋞㋟㋠㋡㋢㋣㋤㋥㋦㋧㋨㋩㋪㋫㋬㋭㋮㋯㋰㋱㋲㋳㋴㋵㋶㋷㋸㋹㋺㋻㋼㋽㋾㋿㎀㎁㎂㎃㎄㎅㎆㎇㎈㎉㎊㎋㎌㎍㎎㎏㎐㎑㎒㎓㎔㎕㎖㎗㎘㎙㎚㎛㎜㎝㎞㎟㎠㎡㎢㎣㎤㎥㎦㎧㎨㎩㎪㎫㎬㎭㎮㎯㎰㎱㎲㎳㎴㎵㎶㎷㎸㎹㎺㎻㎼㎽㎾㎿㏀㏁㏂㏃㏄㏅㏆㏇㏈㏉㏊㏋㏌㏍㏎㏏㏐㏑㏒㏓㏔㏕㏖㏗㏘㏙㏚㏛㏜㏝㏞㏟㏠㏡㏢㏣㏤㏥㏦㏧㏨㏩㏪㏫㏬㏭㏮㏯㏰㏱㏲㏳㏴㏵㏶㏷㏸㏹㏺㏻㏼㏽㏾㏿㒀㒁㒂㒃㒄㒅㒆㒇㒈㒉㒊㒋㒌㒍㒎㒏㒐㒑㒒㒓㒔㒕㒖㒗㒘㒙㒚㒛㒜㒝㒞㒟㒠㒡㒢㒣㒤㒥㒦㒧㒨㒩㒪㒫㒬㒭㒮㒯㒰㒱㒲㒳㒴㒵㒶㒷㒸㒹㒺㒻㒼㒽㒾㒿㓀㓁㓂㓃㓄㓅㓆㓇㓈㓉㓊㓋㓌㓍㓎㓏㓐㓑㓒㓓㓔㓕㓖㓗㓘㓙㓚㓛㓜㓝㓞㓟㓠㓡㓢㓣㓤㓥㓦㓧㓨㓩㓪㓫㓬㓭㓮㓯㓰㓱㓲㓳㓴㓵㓶㓷㓸㓹㓺㓻㓼㓽㓾㓿㖀㖁㖂㖃㖄㖅㖆㖇㖈㖉㖊㖋㖌㖍㖎㖏㖐㖑㖒㖓㖔㖕㖖㖗㖘㖙㖚㖛㖜㖝㖞㖟㖠㖡㖢㖣㖤㖥㖦㖧㖨㖩㖪㖫㖬㖭㖮㖯㖰㖱㖲㖳㖴㖵㖶㖷㖸㖹㖺㖻㖼㖽㖾㖿㗀㗁㗂㗃㗄㗅㗆㗇㗈㗉㗊㗋㗌㗍㗎㗏㗐㗑㗒㗓㗔㗕㗖㗗㗘㗙㗚㗛㗜㗝㗞㗟㗠㗡㗢㗣㗤㗥㗦㗧㗨㗩㗪㗫㗬㗭㗮㗯㗰㗱㗲㗳㗴㗵㗶㗷㗸㗹㗺㗻㗼㗽㗾㗿㚀㚁㚂㚃㚄㚅㚆㚇㚈㚉㚊㚋㚌㚍㚎㚏㚐㚑㚒㚓㚔㚕㚖㚗㚘㚙㚚㚛㚜㚝㚞㚟㚠㚡㚢㚣㚤㚥㚦㚧㚨㚩㚪㚫㚬㚭㚮㚯㚰㚱㚲㚳㚴㚵㚶㚷㚸㚹㚺㚻㚼㚽㚾㚿㛀㛁㛂㛃㛄㛅㛆㛇㛈㛉㛊㛋㛌㛍㛎㛏㛐㛑㛒㛓㛔㛕㛖㛗㛘㛙㛚㛛㛜㛝㛞㛟㛠㛡㛢㛣㛤㛥㛦㛧㛨㛩㛪㛫㛬㛭㛮㛯㛰㛱㛲㛳㛴㛵㛶㛷㛸㛹㛺㛻㛼㛽㛾㛿㞀㞁㞂㞃㞄㞅㞆㞇㞈㞉㞊㞋㞌㞍㞎㞏㞐㞑㞒㞓㞔㞕㞖㞗㞘㞙㞚㞛㞜㞝㞞㞟㞠㞡㞢㞣㞤㞥㞦㞧㞨㞩㞪㞫㞬㞭㞮㞯㞰㞱㞲㞳㞴㞵㞶㞷㞸㞹㞺㞻㞼㞽㞾㞿㟀㟁㟂㟃㟄㟅㟆㟇㟈㟉㟊㟋㟌㟍㟎㟏㟐㟑㟒㟓㟔㟕㟖㟗㟘㟙㟚㟛㟜㟝㟞㟟㟠㟡㟢㟣㟤㟥㟦㟧㟨㟩㟪㟫㟬㟭㟮㟯㟰㟱㟲㟳㟴㟵㟶㟷㟸㟹㟺㟻㟼㟽㟾㟿㢀㢁㢂㢃㢄㢅㢆㢇㢈㢉㢊㢋㢌㢍㢎㢏㢐㢑㢒㢓㢔㢕㢖㢗㢘㢙㢚㢛㢜㢝㢞㢟㢠㢡㢢㢣㢤㢥㢦㢧㢨㢩㢪㢫㢬㢭㢮㢯㢰㢱㢲㢳㢴㢵㢶㢷㢸㢹㢺㢻㢼㢽㢾㢿㣀㣁㣂㣃㣄㣅㣆㣇㣈㣉㣊㣋㣌㣍㣎㣏㣐㣑㣒㣓㣔㣕㣖㣗㣘㣙㣚㣛㣜㣝㣞㣟㣠㣡㣢㣣㣤㣥㣦㣧㣨㣩㣪㣫㣬㣭㣮㣯㣰㣱㣲㣳㣴㣵㣶㣷㣸㣹㣺㣻㣼㣽㣾㣿㦀㦁㦂㦃㦄㦅㦆㦇㦈㦉㦊㦋㦌㦍㦎㦏㦐㦑㦒㦓㦔㦕㦖㦗㦘㦙㦚㦛㦜㦝㦞㦟㦠㦡㦢㦣㦤㦥㦦㦧㦨㦩㦪㦫㦬㦭㦮㦯㦰㦱㦲㦳㦴㦵㦶㦷㦸㦹㦺㦻㦼㦽㦾㦿㧀㧁㧂㧃㧄㧅㧆㧇㧈㧉㧊㧋㧌㧍㧎㧏㧐㧑㧒㧓㧔㧕㧖㧗㧘㧙㧚㧛㧜㧝㧞㧟㧠㧡㧢㧣㧤㧥㧦㧧㧨㧩㧪㧫㧬㧭㧮㧯㧰㧱㧲㧳㧴㧵㧶㧷㧸㧹㧺㧻㧼㧽㧾㧿㪀㪁㪂㪃㪄㪅㪆㪇㪈㪉㪊㪋㪌㪍㪎㪏㪐㪑㪒㪓㪔㪕㪖㪗㪘㪙㪚㪛㪜㪝㪞㪟㪠㪡㪢㪣㪤㪥㪦㪧㪨㪩㪪㪫㪬㪭㪮㪯㪰㪱㪲㪳㪴㪵㪶㪷㪸㪹㪺㪻㪼㪽㪾㪿㫀㫁㫂㫃㫄㫅㫆㫇㫈㫉㫊㫋㫌㫍㫎㫏㫐㫑㫒㫓㫔㫕㫖㫗㫘㫙㫚㫛㫜㫝㫞㫟㫠㫡㫢㫣㫤㫥㫦㫧㫨㫩㫪㫫㫬㫭㫮㫯㫰㫱㫲㫳㫴㫵㫶㫷㫸㫹㫺㫻㫼㫽㫾㫿㮀㮁㮂㮃㮄㮅㮆㮇㮈㮉㮊㮋㮌㮍㮎㮏㮐㮑㮒㮓㮔㮕㮖㮗㮘㮙㮚㮛㮜㮝㮞㮟㮠㮡㮢㮣㮤㮥㮦㮧㮨㮩㮪㮫㮬㮭㮮㮯㮰㮱㮲㮳㮴㮵㮶㮷㮸㮹㮺㮻㮼㮽㮾㮿㯀㯁㯂㯃㯄㯅㯆㯇㯈㯉㯊㯋㯌㯍㯎㯏㯐㯑㯒㯓㯔㯕㯖㯗㯘㯙㯚㯛㯜㯝㯞㯟㯠㯡㯢㯣㯤㯥㯦㯧㯨㯩㯪㯫㯬㯭㯮㯯㯰㯱㯲㯳㯴㯵㯶㯷㯸㯹㯺㯻㯼㯽㯾㯿㲀㲁㲂㲃㲄㲅㲆㲇㲈㲉㲊㲋㲌㲍㲎㲏㲐㲑㲒㲓㲔㲕㲖㲗㲘㲙㲚㲛㲜㲝㲞㲟㲠㲡㲢㲣㲤㲥㲦㲧㲨㲩㲪㲫㲬㲭㲮㲯㲰㲱㲲㲳㲴㲵㲶㲷㲸㲹㲺㲻㲼㲽㲾㲿㳀㳁㳂㳃㳄㳅㳆㳇㳈㳉㳊㳋㳌㳍㳎㳏㳐㳑㳒㳓㳔㳕㳖㳗㳘㳙㳚㳛㳜㳝㳞㳟㳠㳡㳢㳣㳤㳥㳦㳧㳨㳩㳪㳫㳬㳭㳮㳯㳰㳱㳲㳳㳴㳵㳶㳷㳸㳹㳺㳻㳼㳽㳾㳿㶀㶁㶂㶃㶄㶅㶆㶇㶈㶉㶊㶋㶌㶍㶎㶏㶐㶑㶒㶓㶔㶕㶖㶗㶘㶙㶚㶛㶜㶝㶞㶟㶠㶡㶢㶣㶤㶥㶦㶧㶨㶩㶪㶫㶬㶭㶮㶯㶰㶱㶲㶳㶴㶵㶶㶷㶸㶹㶺㶻㶼㶽㶾㶿㷀㷁㷂㷃㷄㷅㷆㷇㷈㷉㷊㷋㷌㷍㷎㷏㷐㷑㷒㷓㷔㷕㷖㷗㷘㷙㷚㷛㷜㷝㷞㷟㷠㷡㷢㷣㷤㷥㷦㷧㷨㷩㷪㷫㷬㷭㷮㷯㷰㷱㷲㷳㷴㷵㷶㷷㷸㷹㷺㷻㷼㷽㷾㷿㺀㺁㺂㺃㺄㺅㺆㺇㺈㺉㺊㺋㺌㺍㺎㺏㺐㺑㺒㺓㺔㺕㺖㺗㺘㺙㺚㺛㺜㺝㺞㺟㺠㺡㺢㺣㺤㺥㺦㺧㺨㺩㺪㺫㺬㺭㺮㺯㺰㺱㺲㺳㺴㺵㺶㺷㺸㺹㺺㺻㺼㺽㺾㺿㻀㻁㻂㻃㻄㻅㻆㻇㻈㻉㻊㻋㻌㻍㻎㻏㻐㻑㻒㻓㻔㻕㻖㻗㻘㻙㻚㻛㻜㻝㻞㻟㻠㻡㻢㻣㻤㻥㻦㻧㻨㻩㻪㻫㻬㻭㻮㻯㻰㻱㻲㻳㻴㻵㻶㻷㻸㻹㻺㻻㻼㻽㻾㻿㾀㾁㾂㾃㾄㾅㾆㾇㾈㾉㾊㾋㾌㾍㾎㾏㾐㾑㾒㾓㾔㾕㾖㾗㾘㾙㾚㾛㾜㾝㾞㾟㾠㾡㾢㾣㾤㾥㾦㾧㾨㾩㾪㾫㾬㾭㾮㾯㾰㾱㾲㾳㾴㾵㾶㾷㾸㾹㾺㾻㾼㾽㾾㾿㿀㿁㿂㿃㿄㿅㿆㿇㿈㿉㿊㿋㿌㿍㿎㿏㿐㿑㿒㿓㿔㿕㿖㿗㿘㿙㿚㿛㿜㿝㿞㿟㿠㿡㿢㿣㿤㿥㿦㿧㿨㿩㿪㿫㿬㿭㿮㿯㿰㿱㿲㿳㿴㿵㿶㿷㿸㿹㿺㿻㿼㿽㿾㿿䂀䂁䂂䂃䂄䂅䂆䂇䂈䂉䂊䂋䂌䂍䂎䂏䂐䂑䂒䂓䂔䂕䂖䂗䂘䂙䂚䂛䂜䂝䂞䂟䂠䂡䂢䂣䂤䂥䂦䂧䂨䂩䂪䂫䂬䂭䂮䂯䂰䂱䂲䂳䂴䂵䂶䂷䂸䂹䂺䂻䂼䂽䂾䂿䃀䃁䃂䃃䃄䃅䃆䃇䃈䃉䃊䃋䃌䃍䃎䃏䃐䃑䃒䃓䃔䃕䃖䃗䃘䃙䃚䃛䃜䃝䃞䃟䃠䃡䃢䃣䃤䃥䃦䃧䃨䃩䃪䃫䃬䃭䃮䃯䃰䃱䃲䃳䃴䃵䃶䃷䃸䃹䃺䃻䃼䃽䃾䃿䆀䆁䆂䆃䆄䆅䆆䆇䆈䆉䆊䆋䆌䆍䆎䆏䆐䆑䆒䆓䆔䆕䆖䆗䆘䆙䆚䆛䆜䆝䆞䆟䆠䆡䆢䆣䆤䆥䆦䆧䆨䆩䆪䆫䆬䆭䆮䆯䆰䆱䆲䆳䆴䆵䆶䆷䆸䆹䆺䆻䆼䆽䆾䆿䇀䇁䇂䇃䇄䇅䇆䇇䇈䇉䇊䇋䇌䇍䇎䇏䇐䇑䇒䇓䇔䇕䇖䇗䇘䇙䇚䇛䇜䇝䇞䇟䇠䇡䇢䇣䇤䇥䇦䇧䇨䇩䇪䇫䇬䇭䇮䇯䇰䇱䇲䇳䇴䇵䇶䇷䇸䇹䇺䇻䇼䇽䇾䇿䊀䊁䊂䊃䊄䊅䊆䊇䊈䊉䊊䊋䊌䊍䊎䊏䊐䊑䊒䊓䊔䊕䊖䊗䊘䊙䊚䊛䊜䊝䊞䊟䊠䊡䊢䊣䊤䊥䊦䊧䊨䊩䊪䊫䊬䊭䊮䊯䊰䊱䊲䊳䊴䊵䊶䊷䊸䊹䊺䊻䊼䊽䊾䊿䋀䋁䋂䋃䋄䋅䋆䋇䋈䋉䋊䋋䋌䋍䋎䋏䋐䋑䋒䋓䋔䋕䋖䋗䋘䋙䋚䋛䋜䋝䋞䋟䋠䋡䋢䋣䋤䋥䋦䋧䋨䋩䋪䋫䋬䋭䋮䋯䋰䋱䋲䋳䋴䋵䋶䋷䋸䋹䋺䋻䋼䋽䋾䋿䎀䎁䎂䎃䎄䎅䎆䎇䎈䎉䎊䎋䎌䎍䎎䎏䎐䎑䎒䎓䎔䎕䎖䎗䎘䎙䎚䎛䎜䎝䎞䎟䎠䎡䎢䎣䎤䎥䎦䎧䎨䎩䎪䎫䎬䎭䎮䎯䎰䎱䎲䎳䎴䎵䎶䎷䎸䎹䎺䎻䎼䎽䎾䎿䏀䏁䏂䏃䏄䏅䏆䏇䏈䏉䏊䏋䏌䏍䏎䏏䏐䏑䏒䏓䏔䏕䏖䏗䏘䏙䏚䏛䏜䏝䏞䏟䏠䏡䏢䏣䏤䏥䏦䏧䏨䏩䏪䏫䏬䏭䏮䏯䏰䏱䏲䏳䏴䏵䏶䏷䏸䏹䏺䏻䏼䏽䏾䏿䒀䒁䒂䒃䒄䒅䒆䒇䒈䒉䒊䒋䒌䒍䒎䒏䒐䒑䒒䒓䒔䒕䒖䒗䒘䒙䒚䒛䒜䒝䒞䒟䒠䒡䒢䒣䒤䒥䒦䒧䒨䒩䒪䒫䒬䒭䒮䒯䒰䒱䒲䒳䒴䒵䒶䒷䒸䒹䒺䒻䒼䒽䒾䒿䓀䓁䓂䓃䓄䓅䓆䓇䓈䓉䓊䓋䓌䓍䓎䓏䓐䓑䓒䓓䓔䓕䓖䓗䓘䓙䓚䓛䓜䓝䓞䓟䓠䓡䓢䓣䓤䓥䓦䓧䓨䓩䓪䓫䓬䓭䓮䓯䓰䓱䓲䓳䓴䓵䓶䓷䓸䓹䓺䓻䓼䓽䓾䓿䖀䖁䖂䖃䖄䖅䖆䖇䖈䖉䖊䖋䖌䖍䖎䖏䖐䖑䖒䖓䖔䖕䖖䖗䖘䖙䖚䖛䖜䖝䖞䖟䖠䖡䖢䖣䖤䖥䖦䖧䖨䖩䖪䖫䖬䖭䖮䖯䖰䖱䖲䖳䖴䖵䖶䖷䖸䖹䖺䖻䖼䖽䖾䖿䗀䗁䗂䗃䗄䗅䗆䗇䗈䗉䗊䗋䗌䗍䗎䗏䗐䗑䗒䗓䗔䗕䗖䗗䗘䗙䗚䗛䗜䗝䗞䗟䗠䗡䗢䗣䗤䗥䗦䗧䗨䗩䗪䗫䗬䗭䗮䗯䗰䗱䗲䗳䗴䗵䗶䗷䗸䗹䗺䗻䗼䗽䗾䗿䚀䚁䚂䚃䚄䚅䚆䚇䚈䚉䚊䚋䚌䚍䚎䚏䚐䚑䚒䚓䚔䚕䚖䚗䚘䚙䚚䚛䚜䚝䚞䚟䚠䚡䚢䚣䚤䚥䚦䚧䚨䚩䚪䚫䚬䚭䚮䚯䚰䚱䚲䚳䚴䚵䚶䚷䚸䚹䚺䚻䚼䚽䚾䚿䛀䛁䛂䛃䛄䛅䛆䛇䛈䛉䛊䛋䛌䛍䛎䛏䛐䛑䛒䛓䛔䛕䛖䛗䛘䛙䛚䛛䛜䛝䛞䛟䛠䛡䛢䛣䛤䛥䛦䛧䛨䛩䛪䛫䛬䛭䛮䛯䛰䛱䛲䛳䛴䛵䛶䛷䛸䛹䛺䛻䛼䛽䛾䛿䞀䞁䞂䞃䞄䞅䞆䞇䞈䞉䞊䞋䞌䞍䞎䞏䞐䞑䞒䞓䞔䞕䞖䞗䞘䞙䞚䞛䞜䞝䞞䞟䞠䞡䞢䞣䞤䞥䞦䞧䞨䞩䞪䞫䞬䞭䞮䞯䞰䞱䞲䞳䞴䞵䞶䞷䞸䞹䞺䞻䞼䞽䞾䞿䟀䟁䟂䟃䟄䟅䟆䟇䟈䟉䟊䟋䟌䟍䟎䟏䟐䟑䟒䟓䟔䟕䟖䟗䟘䟙䟚䟛䟜䟝䟞䟟䟠䟡䟢䟣䟤䟥䟦䟧䟨䟩䟪䟫䟬䟭䟮䟯䟰䟱䟲䟳䟴䟵䟶䟷䟸䟹䟺䟻䟼䟽䟾䟿䢀䢁䢂䢃䢄䢅䢆䢇䢈䢉䢊䢋䢌䢍䢎䢏䢐䢑䢒䢓䢔䢕䢖䢗䢘䢙䢚䢛䢜䢝䢞䢟䢠䢡䢢䢣䢤䢥䢦䢧䢨䢩䢪䢫䢬䢭䢮䢯䢰䢱䢲䢳䢴䢵䢶䢷䢸䢹䢺䢻䢼䢽䢾䢿䣀䣁䣂䣃䣄䣅䣆䣇䣈䣉䣊䣋䣌䣍䣎䣏䣐䣑䣒䣓䣔䣕䣖䣗䣘䣙䣚䣛䣜䣝䣞䣟䣠䣡䣢䣣䣤䣥䣦䣧䣨䣩䣪䣫䣬䣭䣮䣯䣰䣱䣲䣳䣴䣵䣶䣷䣸䣹䣺䣻䣼䣽䣾䣿䦀䦁䦂䦃䦄䦅䦆䦇䦈䦉䦊䦋䦌䦍䦎䦏䦐䦑䦒䦓䦔䦕䦖䦗䦘䦙䦚䦛䦜䦝䦞䦟䦠䦡䦢䦣䦤䦥䦦䦧䦨䦩䦪䦫䦬䦭䦮䦯䦰䦱䦲䦳䦴䦵䦶䦷䦸䦹䦺䦻䦼䦽䦾䦿䧀䧁䧂䧃䧄䧅䧆䧇䧈䧉䧊䧋䧌䧍䧎䧏䧐䧑䧒䧓䧔䧕䧖䧗䧘䧙䧚䧛䧜䧝䧞䧟䧠䧡䧢䧣䧤䧥䧦䧧䧨䧩䧪䧫䧬䧭䧮䧯䧰䧱䧲䧳䧴䧵䧶䧷䧸䧹䧺䧻䧼䧽䧾䧿䪀䪁䪂䪃䪄䪅䪆䪇䪈䪉䪊䪋䪌䪍䪎䪏䪐䪑䪒䪓䪔䪕䪖䪗䪘䪙䪚䪛䪜䪝䪞䪟䪠䪡䪢䪣䪤䪥䪦䪧䪨䪩䪪䪫䪬䪭䪮䪯䪰䪱䪲䪳䪴䪵䪶䪷䪸䪹䪺䪻䪼䪽䪾䪿䫀䫁䫂䫃䫄䫅䫆䫇䫈䫉䫊䫋䫌䫍䫎䫏䫐䫑䫒䫓䫔䫕䫖䫗䫘䫙䫚䫛䫜䫝䫞䫟䫠䫡䫢䫣䫤䫥䫦䫧䫨䫩䫪䫫䫬䫭䫮䫯䫰䫱䫲䫳䫴䫵䫶䫷䫸䫹䫺䫻䫼䫽䫾䫿䮀䮁䮂䮃䮄䮅䮆䮇䮈䮉䮊䮋䮌䮍䮎䮏䮐䮑䮒䮓䮔䮕䮖䮗䮘䮙䮚䮛䮜䮝䮞䮟䮠䮡䮢䮣䮤䮥䮦䮧䮨䮩䮪䮫䮬䮭䮮䮯䮰䮱䮲䮳䮴䮵䮶䮷䮸䮹䮺䮻䮼䮽䮾䮿䯀䯁䯂䯃䯄䯅䯆䯇䯈䯉䯊䯋䯌䯍䯎䯏䯐䯑䯒䯓䯔䯕䯖䯗䯘䯙䯚䯛䯜䯝䯞䯟䯠䯡䯢䯣䯤䯥䯦䯧䯨䯩䯪䯫䯬䯭䯮䯯䯰䯱䯲䯳䯴䯵䯶䯷䯸䯹䯺䯻䯼䯽䯾䯿䲀䲁䲂䲃䲄䲅䲆䲇䲈䲉䲊䲋䲌䲍䲎䲏䲐䲑䲒䲓䲔䲕䲖䲗䲘䲙䲚䲛䲜䲝䲞䲟䲠䲡䲢䲣䲤䲥䲦䲧䲨䲩䲪䲫䲬䲭䲮䲯䲰䲱䲲䲳䲴䲵䲶䲷䲸䲹䲺䲻䲼䲽䲾䲿䳀䳁䳂䳃䳄䳅䳆䳇䳈䳉䳊䳋䳌䳍䳎䳏䳐䳑䳒䳓䳔䳕䳖䳗䳘䳙䳚䳛䳜䳝䳞䳟䳠䳡䳢䳣䳤䳥䳦䳧䳨䳩䳪䳫䳬䳭䳮䳯䳰䳱䳲䳳䳴䳵䳶䳷䳸䳹䳺䳻䳼䳽䳾䳿䶀䶁䶂䶃䶄䶅䶆䶇䶈䶉䶊䶋䶌䶍䶎䶏䶐䶑䶒䶓䶔䶕䶖䶗䶘䶙䶚䶛䶜䶝䶞䶟䶠䶡䶢䶣䶤䶥䶦䶧䶨䶩䶪䶫䶬䶭䶮䶯䶰䶱䶲䶳䶴䶵䶶䶷䶸䶹䶺䶻䶼䶽䶾䶿䷀䷁䷂䷃䷄䷅䷆䷇䷈䷉䷊䷋䷌䷍䷎䷏䷐䷑䷒䷓䷔䷕䷖䷗䷘䷙䷚䷛䷜䷝䷞䷟䷠䷡䷢䷣䷤䷥䷦䷧䷨䷩䷪䷫䷬䷭䷮䷯䷰䷱䷲䷳䷴䷵䷶䷷䷸䷹䷺䷻䷼䷽䷾䷿亀亁亂亃亄亅了亇予争亊事二亍于亏亐云互亓五井亖亗亘亙亚些亜亝亞亟亠亡亢亣交亥亦产亨亩亪享京亭亮亯亰亱亲亳亴亵亶亷亸亹人亻亼亽亾亿什仁仂仃仄仅仆仇仈仉今介仌仍从仏仐仑仒仓仔仕他仗付仙仚仛仜仝仞仟仠仡仢代令以仦仧仨仩仪仫们仭仮仯仰仱仲仳仴仵件价仸仹仺任仼份仾仿侀侁侂侃侄侅來侇侈侉侊例侌侍侎侏侐侑侒侓侔侕侖侗侘侙侚供侜依侞侟侠価侢侣侤侥侦侧侨侩侪侫侬侭侮侯侰侱侲侳侴侵侶侷侸侹侺侻侼侽侾便俀俁係促俄俅俆俇俈俉俊俋俌俍俎俏俐俑俒俓俔俕俖俗俘俙俚俛俜保俞俟俠信俢俣俤俥俦俧俨俩俪俫俬俭修俯俰俱俲俳俴俵俶俷俸俹俺俻俼俽俾俿傀傁傂傃傄傅傆傇傈傉傊傋傌傍傎傏傐傑傒傓傔傕傖傗傘備傚傛傜傝傞傟傠傡傢傣傤傥傦傧储傩傪傫催傭傮傯傰傱傲傳傴債傶傷傸傹傺傻傼傽傾傿僀僁僂僃僄僅僆僇僈僉僊僋僌働僎像僐僑僒僓僔僕僖僗僘僙僚僛僜僝僞僟僠僡僢僣僤僥僦僧僨僩僪僫僬僭僮僯僰僱僲僳僴僵僶僷僸價僺僻僼僽僾僿冀冁冂冃冄内円冇冈冉冊冋册再冎冏冐冑冒冓冔冕冖冗冘写冚军农冝冞冟冠冡冢冣冤冥冦冧冨冩冪冫冬冭冮冯冰冱冲决冴况冶冷冸冹冺冻冼冽冾冿净凁凂凃凄凅准凇凈凉凊凋凌凍凎减凐凑凒凓凔凕凖凗凘凙凚凛凜凝凞凟几凡凢凣凤凥処凧凨凩凪凫凬凭凮凯凰凱凲凳凴凵凶凷凸凹出击凼函凾凿劀劁劂劃劄劅劆劇劈劉劊劋劌劍劎劏劐劑劒劓劔劕劖劗劘劙劚力劜劝办功加务劢劣劤劥劦劧动助努劫劬劭劮劯劰励劲劳労劵劶劷劸効劺劻劼劽劾势勀勁勂勃勄勅勆勇勈勉勊勋勌勍勎勏勐勑勒勓勔動勖勗勘務勚勛勜勝勞募勠勡勢勣勤勥勦勧勨勩勪勫勬勭勮勯勰勱勲勳勴勵勶勷勸勹勺勻勼勽勾勿厀厁厂厃厄厅历厇厈厉厊压厌厍厎厏厐厑厒厓厔厕厖厗厘厙厚厛厜厝厞原厠厡厢厣厤厥厦厧厨厩厪厫厬厭厮厯厰厱厲厳厴厵厶厷厸厹厺去厼厽厾县叀叁参參叄叅叆叇又叉及友双反収叏叐发叒叓叔叕取受变叙叚叛叜叝叞叟叠叡叢口古句另叧叨叩只叫召叭叮可台叱史右叴叵叶号司叹叺叻叼叽叾叿咀咁咂咃咄咅咆咇咈咉咊咋和咍咎咏咐咑咒咓咔咕咖咗咘咙咚咛咜咝咞咟咠咡咢咣咤咥咦咧咨咩咪咫咬咭咮咯咰咱咲咳咴咵咶咷咸咹咺咻咼咽咾咿哀品哂哃哄哅哆哇哈哉哊哋哌响哎哏哐哑哒哓哔哕哖哗哘哙哚哛哜哝哞哟哠員哢哣哤哥哦哧哨哩哪哫哬哭哮哯哰哱哲哳哴哵哶哷哸哹哺哻哼哽哾哿喀喁喂喃善喅喆喇喈喉喊喋喌喍喎喏喐喑喒喓喔喕喖喗喘喙喚喛喜喝喞喟喠喡喢喣喤喥喦喧喨喩喪喫喬喭單喯喰喱喲喳喴喵営喷喸喹喺喻喼喽喾喿嗀嗁嗂嗃嗄嗅嗆嗇嗈嗉嗊嗋嗌嗍嗎嗏嗐嗑嗒嗓嗔嗕嗖嗗嗘嗙嗚嗛嗜嗝嗞嗟嗠嗡嗢嗣嗤嗥嗦嗧嗨嗩嗪嗫嗬嗭嗮嗯嗰嗱嗲嗳嗴嗵嗶嗷嗸嗹嗺嗻嗼嗽嗾嗿嚀嚁嚂嚃嚄嚅嚆嚇嚈嚉嚊嚋嚌嚍嚎嚏嚐嚑嚒嚓嚔嚕嚖嚗嚘嚙嚚嚛嚜嚝嚞嚟嚠嚡嚢嚣嚤嚥嚦嚧嚨嚩嚪嚫嚬嚭嚮嚯嚰嚱嚲嚳嚴嚵嚶嚷嚸嚹嚺嚻嚼嚽嚾嚿囀囁囂囃囄囅囆囇囈囉囊囋囌囍囎囏囐囑囒囓囔囕囖囗囘囙囚四囜囝回囟因囡团団囤囥囦囧囨囩囪囫囬园囮囯困囱囲図围囵囶囷囸囹固囻囼国图囿垀垁垂垃垄垅垆垇垈垉垊型垌垍垎垏垐垑垒垓垔垕垖垗垘垙垚垛垜垝垞垟垠垡垢垣垤垥垦垧垨垩垪垫垬垭垮垯垰垱垲垳垴垵垶垷垸垹垺垻垼垽垾垿埀埁埂埃埄埅埆埇埈埉埊埋埌埍城埏埐埑埒埓埔埕埖埗埘埙埚埛埜埝埞域埠埡埢埣埤埥埦埧埨埩埪埫埬埭埮埯埰埱埲埳埴埵埶執埸培基埻埼埽埾埿墀墁墂境墄墅墆墇墈墉墊墋墌墍墎墏墐墑墒墓墔墕墖増墘墙墚墛墜墝增墟墠墡墢墣墤墥墦墧墨墩墪墫墬墭墮墯墰墱墲墳墴墵墶墷墸墹墺墻墼墽墾墿壀壁壂壃壄壅壆壇壈壉壊壋壌壍壎壏壐壑壒壓壔壕壖壗壘壙壚壛壜壝壞壟壠壡壢壣壤壥壦壧壨壩壪士壬壭壮壯声壱売壳壴壵壶壷壸壹壺壻壼壽壾壿妀妁如妃妄妅妆妇妈妉妊妋妌妍妎妏妐妑妒妓妔妕妖妗妘妙妚妛妜妝妞妟妠妡妢妣妤妥妦妧妨妩妪妫妬妭妮妯妰妱妲妳妴妵妶妷妸妹妺妻妼妽妾妿姀姁姂姃姄姅姆姇姈姉姊始姌姍姎姏姐姑姒姓委姕姖姗姘姙姚姛姜姝姞姟姠姡姢姣姤姥姦姧姨姩姪姫姬姭姮姯姰姱姲姳姴姵姶姷姸姹姺姻姼姽姾姿媀媁媂媃媄媅媆媇媈媉媊媋媌媍媎媏媐媑媒媓媔媕媖媗媘媙媚媛媜媝媞媟媠媡媢媣媤媥媦媧媨媩媪媫媬媭媮媯媰媱媲媳媴媵媶媷媸媹媺媻媼媽媾媿嫀嫁嫂嫃嫄嫅嫆嫇嫈嫉嫊嫋嫌嫍嫎嫏嫐嫑嫒嫓嫔嫕嫖嫗嫘嫙嫚嫛嫜嫝嫞嫟嫠嫡嫢嫣嫤嫥嫦嫧嫨嫩嫪嫫嫬嫭嫮嫯嫰嫱嫲嫳嫴嫵嫶嫷嫸嫹嫺嫻嫼嫽嫾嫿宀宁宂它宄宅宆宇守安宊宋完宍宎宏宐宑宒宓宔宕宖宗官宙定宛宜宝实実宠审客宣室宥宦宧宨宩宪宫宬宭宮宯宰宱宲害宴宵家宷宸容宺宻宼宽宾宿寀寁寂寃寄寅密寇寈寉寊寋富寍寎寏寐寑寒寓寔寕寖寗寘寙寚寛寜寝寞察寠寡寢寣寤寥實寧寨審寪寫寬寭寮寯寰寱寲寳寴寵寶寷寸对寺寻导寽対寿岀岁岂岃岄岅岆岇岈岉岊岋岌岍岎岏岐岑岒岓岔岕岖岗岘岙岚岛岜岝岞岟岠岡岢岣岤岥岦岧岨岩岪岫岬岭岮岯岰岱岲岳岴岵岶岷岸岹岺岻岼岽岾岿峀峁峂峃峄峅峆峇峈峉峊峋峌峍峎峏峐峑峒峓峔峕峖峗峘峙峚峛峜峝峞峟峠峡峢峣峤峥峦峧峨峩峪峫峬峭峮峯峰峱峲峳峴峵島峷峸峹峺峻峼峽峾峿嶀嶁嶂嶃嶄嶅嶆嶇嶈嶉嶊嶋嶌嶍嶎嶏嶐嶑嶒嶓嶔嶕嶖嶗嶘嶙嶚嶛嶜嶝嶞嶟嶠嶡嶢嶣嶤嶥嶦嶧嶨嶩嶪嶫嶬嶭嶮嶯嶰嶱嶲嶳嶴嶵嶶嶷嶸嶹嶺嶻嶼嶽嶾嶿巀巁巂巃巄巅巆巇巈巉巊巋巌巍巎巏巐巑巒巓巔巕巖巗巘巙巚巛巜川州巟巠巡巢巣巤工左巧巨巩巪巫巬巭差巯巰己已巳巴巵巶巷巸巹巺巻巼巽巾巿庀庁庂広庄庅庆庇庈庉床庋庌庍庎序庐庑庒库应底庖店庘庙庚庛府庝庞废庠庡庢庣庤庥度座庨庩庪庫庬庭庮庯庰庱庲庳庴庵庶康庸庹庺庻庼庽庾庿廀廁廂廃廄廅廆廇廈廉廊廋廌廍廎廏廐廑廒廓廔廕廖廗廘廙廚廛廜廝廞廟廠廡廢廣廤廥廦廧廨廩廪廫廬廭廮廯廰廱廲廳廴廵延廷廸廹建廻廼廽廾廿往征徂徃径待徆徇很徉徊律後徍徎徏徐徑徒従徔徕徖得徘徙徚徛徜徝從徟徠御徢徣徤徥徦徧徨復循徫徬徭微徯徰徱徲徳徴徵徶德徸徹徺徻徼徽徾徿忀忁忂心忄必忆忇忈忉忊忋忌忍忎忏忐忑忒忓忔忕忖志忘忙忚忛応忝忞忟忠忡忢忣忤忥忦忧忨忩忪快忬忭忮忯忰忱忲忳忴念忶忷忸忹忺忻忼忽忾忿悀悁悂悃悄悅悆悇悈悉悊悋悌悍悎悏悐悑悒悓悔悕悖悗悘悙悚悛悜悝悞悟悠悡悢患悤悥悦悧您悩悪悫悬悭悮悯悰悱悲悳悴悵悶悷悸悹悺悻悼悽悾悿惀惁惂惃惄情惆惇惈惉惊惋惌惍惎惏惐惑惒惓惔惕惖惗惘惙惚惛惜惝惞惟惠惡惢惣惤惥惦惧惨惩惪惫惬惭惮惯惰惱惲想惴惵惶惷惸惹惺惻惼惽惾惿憀憁憂憃憄憅憆憇憈憉憊憋憌憍憎憏憐憑憒憓憔憕憖憗憘憙憚憛憜憝憞憟憠憡憢憣憤憥憦憧憨憩憪憫憬憭憮憯憰憱憲憳憴憵憶憷憸憹憺憻憼憽憾憿懀懁懂懃懄懅懆懇懈應懊懋懌懍懎懏懐懑懒懓懔懕懖懗懘懙懚懛懜懝懞懟懠懡懢懣懤懥懦懧懨懩懪懫懬懭懮懯懰懱懲懳懴懵懶懷懸懹懺懻懼懽懾懿技抁抂抃抄抅抆抇抈抉把抋抌抍抎抏抐抑抒抓抔投抖抗折抙抚抛抜抝択抟抠抡抢抣护报抦抧抨抩抪披抬抭抮抯抰抱抲抳抴抵抶抷抸抹抺抻押抽抾抿拀拁拂拃拄担拆拇拈拉拊拋拌拍拎拏拐拑拒拓拔拕拖拗拘拙拚招拜拝拞拟拠拡拢拣拤拥拦拧拨择拪拫括拭拮拯拰拱拲拳拴拵拶拷拸拹拺拻拼拽拾拿掀掁掂掃掄掅掆掇授掉掊掋掌掍掎掏掐掑排掓掔掕掖掗掘掙掚掛掜掝掞掟掠採探掣掤接掦控推掩措掫掬掭掮掯掰掱掲掳掴掵掶掷掸掹掺掻掼掽掾掿揀揁揂揃揄揅揆揇揈揉揊揋揌揍揎描提揑插揓揔揕揖揗揘揙揚換揜揝揞揟揠握揢揣揤揥揦揧揨揩揪揫揬揭揮揯揰揱揲揳援揵揶揷揸揹揺揻揼揽揾揿撀撁撂撃撄撅撆撇撈撉撊撋撌撍撎撏撐撑撒撓撔撕撖撗撘撙撚撛撜撝撞撟撠撡撢撣撤撥撦撧撨撩撪撫撬播撮撯撰撱撲撳撴撵撶撷撸撹撺撻撼撽撾撿擀擁擂擃擄擅擆擇擈擉擊擋擌操擎擏擐擑擒擓擔擕擖擗擘擙據擛擜擝擞擟擠擡擢擣擤擥擦擧擨擩擪擫擬擭擮擯擰擱擲擳擴擵擶擷擸擹擺擻擼擽擾擿斀斁斂斃斄斅斆文斈斉斊斋斌斍斎斏斐斑斒斓斔斕斖斗斘料斚斛斜斝斞斟斠斡斢斣斤斥斦斧斨斩斪斫斬断斮斯新斱斲斳斴斵斶斷斸方斺斻於施斾斿旀旁旂旃旄旅旆旇旈旉旊旋旌旍旎族旐旑旒旓旔旕旖旗旘旙旚旛旜旝旞旟无旡既旣旤日旦旧旨早旪旫旬旭旮旯旰旱旲旳旴旵时旷旸旹旺旻旼旽旾旿暀暁暂暃暄暅暆暇暈暉暊暋暌暍暎暏暐暑暒暓暔暕暖暗暘暙暚暛暜暝暞暟暠暡暢暣暤暥暦暧暨暩暪暫暬暭暮暯暰暱暲暳暴暵暶暷暸暹暺暻暼暽暾暿曀曁曂曃曄曅曆曇曈曉曊曋曌曍曎曏曐曑曒曓曔曕曖曗曘曙曚曛曜曝曞曟曠曡曢曣曤曥曦曧曨曩曪曫曬曭曮曯曰曱曲曳更曵曶曷書曹曺曻曼曽曾替枀极枂枃构枅枆枇枈枉枊枋枌枍枎枏析枑枒枓枔枕枖林枘枙枚枛果枝枞枟枠枡枢枣枤枥枦枧枨枩枪枫枬枭枮枯枰枱枲枳枴枵架枷枸枹枺枻枼枽枾枿柀柁柂柃柄柅柆柇柈柉柊柋柌柍柎柏某柑柒染柔柕柖柗柘柙柚柛柜柝柞柟柠柡柢柣柤查柦柧柨柩柪柫柬柭柮柯柰柱柲柳柴柵柶柷柸柹柺査柼柽柾柿梀梁梂梃梄梅梆梇梈梉梊梋梌梍梎梏梐梑梒梓梔梕梖梗梘梙梚梛梜條梞梟梠梡梢梣梤梥梦梧梨梩梪梫梬梭梮梯械梱梲梳梴梵梶梷梸梹梺梻梼梽梾梿检棁棂棃棄棅棆棇棈棉棊棋棌棍棎棏棐棑棒棓棔棕棖棗棘棙棚棛棜棝棞棟棠棡棢棣棤棥棦棧棨棩棪棫棬棭森棯棰棱棲棳棴棵棶棷棸棹棺棻棼棽棾棿榀榁概榃榄榅榆榇榈榉榊榋榌榍榎榏榐榑榒榓榔榕榖榗榘榙榚榛榜榝榞榟榠榡榢榣榤榥榦榧榨榩榪榫榬榭榮榯榰榱榲榳榴榵榶榷榸榹榺榻榼榽榾榿槀槁槂槃槄槅槆槇槈槉槊構槌槍槎槏槐槑槒槓槔槕槖槗様槙槚槛槜槝槞槟槠槡槢槣槤槥槦槧槨槩槪槫槬槭槮槯槰槱槲槳槴槵槶槷槸槹槺槻槼槽槾槿檀檁檂檃檄檅檆檇檈檉檊檋檌檍檎檏檐檑檒檓檔檕檖檗檘檙檚檛檜檝檞檟檠檡檢檣檤檥檦檧檨檩檪檫檬檭檮檯檰檱檲檳檴檵檶檷檸檹檺檻檼檽檾檿櫀櫁櫂櫃櫄櫅櫆櫇櫈櫉櫊櫋櫌櫍櫎櫏櫐櫑櫒櫓櫔櫕櫖櫗櫘櫙櫚櫛櫜櫝櫞櫟櫠櫡櫢櫣櫤櫥櫦櫧櫨櫩櫪櫫櫬櫭櫮櫯櫰櫱櫲櫳櫴櫵櫶櫷櫸櫹櫺櫻櫼櫽櫾櫿殀殁殂殃殄殅殆殇殈殉殊残殌殍殎殏殐殑殒殓殔殕殖殗殘殙殚殛殜殝殞殟殠殡殢殣殤殥殦殧殨殩殪殫殬殭殮殯殰殱殲殳殴段殶殷殸殹殺殻殼殽殾殿毀毁毂毃毄毅毆毇毈毉毊毋毌母毎每毐毑毒毓比毕毖毗毘毙毚毛毜毝毞毟毠毡毢毣毤毥毦毧毨毩毪毫毬毭毮毯毰毱毲毳毴毵毶毷毸毹毺毻毼毽毾毿沀沁沂沃沄沅沆沇沈沉沊沋沌沍沎沏沐沑沒沓沔沕沖沗沘沙沚沛沜沝沞沟沠没沢沣沤沥沦沧沨沩沪沫沬沭沮沯沰沱沲河沴沵沶沷沸油沺治沼沽沾沿泀況泂泃泄泅泆泇泈泉泊泋泌泍泎泏泐泑泒泓泔法泖泗泘泙泚泛泜泝泞泟泠泡波泣泤泥泦泧注泩泪泫泬泭泮泯泰泱泲泳泴泵泶泷泸泹泺泻泼泽泾泿涀涁涂涃涄涅涆涇消涉涊涋涌涍涎涏涐涑涒涓涔涕涖涗涘涙涚涛涜涝涞涟涠涡涢涣涤涥润涧涨涩涪涫涬涭涮涯涰涱液涳涴涵涶涷涸涹涺涻涼涽涾涿淀淁淂淃淄淅淆淇淈淉淊淋淌淍淎淏淐淑淒淓淔淕淖淗淘淙淚淛淜淝淞淟淠淡淢淣淤淥淦淧淨淩淪淫淬淭淮淯淰深淲淳淴淵淶混淸淹淺添淼淽淾淿満溁溂溃溄溅溆溇溈溉溊溋溌溍溎溏源溑溒溓溔溕準溗溘溙溚溛溜溝溞溟溠溡溢溣溤溥溦溧溨溩溪溫溬溭溮溯溰溱溲溳溴溵溶溷溸溹溺溻溼溽溾溿滀滁滂滃滄滅滆滇滈滉滊滋滌滍滎滏滐滑滒滓滔滕滖滗滘滙滚滛滜滝滞滟滠满滢滣滤滥滦滧滨滩滪滫滬滭滮滯滰滱滲滳滴滵滶滷滸滹滺滻滼滽滾滿澀澁澂澃澄澅澆澇澈澉澊澋澌澍澎澏澐澑澒澓澔澕澖澗澘澙澚澛澜澝澞澟澠澡澢澣澤澥澦澧澨澩澪澫澬澭澮澯澰澱澲澳澴澵澶澷澸澹澺澻澼澽澾澿激濁濂濃濄濅濆濇濈濉濊濋濌濍濎濏濐濑濒濓濔濕濖濗濘濙濚濛濜濝濞濟濠濡濢濣濤濥濦濧濨濩濪濫濬濭濮濯濰濱濲濳濴濵濶濷濸濹濺濻濼濽濾濿炀炁炂炃炄炅炆炇炈炉炊炋炌炍炎炏炐炑炒炓炔炕炖炗炘炙炚炛炜炝炞炟炠炡炢炣炤炥炦炧炨炩炪炫炬炭炮炯炰炱炲炳炴炵炶炷炸点為炻炼炽炾炿烀烁烂烃烄烅烆烇烈烉烊烋烌烍烎烏烐烑烒烓烔烕烖烗烘烙烚烛烜烝烞烟烠烡烢烣烤烥烦烧烨烩烪烫烬热烮烯烰烱烲烳烴烵烶烷烸烹烺烻烼烽烾烿熀熁熂熃熄熅熆熇熈熉熊熋熌熍熎熏熐熑熒熓熔熕熖熗熘熙熚熛熜熝熞熟熠熡熢熣熤熥熦熧熨熩熪熫熬熭熮熯熰熱熲熳熴熵熶熷熸熹熺熻熼熽熾熿燀燁燂燃燄燅燆燇燈燉燊燋燌燍燎燏燐燑燒燓燔燕燖燗燘燙燚燛燜燝燞營燠燡燢燣燤燥燦燧燨燩燪燫燬燭燮燯燰燱燲燳燴燵燶燷燸燹燺燻燼燽燾燿犀犁犂犃犄犅犆犇犈犉犊犋犌犍犎犏犐犑犒犓犔犕犖犗犘犙犚犛犜犝犞犟犠犡犢犣犤犥犦犧犨犩犪犫犬犭犮犯犰犱犲犳犴犵状犷犸犹犺犻犼犽犾犿狀狁狂狃狄狅狆狇狈狉狊狋狌狍狎狏狐狑狒狓狔狕狖狗狘狙狚狛狜狝狞狟狠狡狢狣狤狥狦狧狨狩狪狫独狭狮狯狰狱狲狳狴狵狶狷狸狹狺狻狼狽狾狿玀玁玂玃玄玅玆率玈玉玊王玌玍玎玏玐玑玒玓玔玕玖玗玘玙玚玛玜玝玞玟玠玡玢玣玤玥玦玧玨玩玪玫玬玭玮环现玱玲玳玴玵玶玷玸玹玺玻玼玽玾玿珀珁珂珃珄珅珆珇珈珉珊珋珌珍珎珏珐珑珒珓珔珕珖珗珘珙珚珛珜珝珞珟珠珡珢珣珤珥珦珧珨珩珪珫珬班珮珯珰珱珲珳珴珵珶珷珸珹珺珻珼珽現珿璀璁璂璃璄璅璆璇璈璉璊璋璌璍璎璏璐璑璒璓璔璕璖璗璘璙璚璛璜璝璞璟璠璡璢璣璤璥璦璧璨璩璪璫璬璭璮璯環璱璲璳璴璵璶璷璸璹璺璻璼璽璾璿瓀瓁瓂瓃瓄瓅瓆瓇瓈瓉瓊瓋瓌瓍瓎瓏瓐瓑瓒瓓瓔瓕瓖瓗瓘瓙瓚瓛瓜瓝瓞瓟瓠瓡瓢瓣瓤瓥瓦瓧瓨瓩瓪瓫瓬瓭瓮瓯瓰瓱瓲瓳瓴瓵瓶瓷瓸瓹瓺瓻瓼瓽瓾瓿疀疁疂疃疄疅疆疇疈疉疊疋疌疍疎疏疐疑疒疓疔疕疖疗疘疙疚疛疜疝疞疟疠疡疢疣疤疥疦疧疨疩疪疫疬疭疮疯疰疱疲疳疴疵疶疷疸疹疺疻疼疽疾疿痀痁痂痃痄病痆症痈痉痊痋痌痍痎痏痐痑痒痓痔痕痖痗痘痙痚痛痜痝痞痟痠痡痢痣痤痥痦痧痨痩痪痫痬痭痮痯痰痱痲痳痴痵痶痷痸痹痺痻痼痽痾痿皀皁皂皃的皅皆皇皈皉皊皋皌皍皎皏皐皑皒皓皔皕皖皗皘皙皚皛皜皝皞皟皠皡皢皣皤皥皦皧皨皩皪皫皬皭皮皯皰皱皲皳皴皵皶皷皸皹皺皻皼皽皾皿盀盁盂盃盄盅盆盇盈盉益盋盌盍盎盏盐监盒盓盔盕盖盗盘盙盚盛盜盝盞盟盠盡盢監盤盥盦盧盨盩盪盫盬盭目盯盰盱盲盳直盵盶盷相盹盺盻盼盽盾盿瞀瞁瞂瞃瞄瞅瞆瞇瞈瞉瞊瞋瞌瞍瞎瞏瞐瞑瞒瞓瞔瞕瞖瞗瞘瞙瞚瞛瞜瞝瞞瞟瞠瞡瞢瞣瞤瞥瞦瞧瞨瞩瞪瞫瞬瞭瞮瞯瞰瞱瞲瞳瞴瞵瞶瞷瞸瞹瞺瞻瞼瞽瞾瞿矀矁矂矃矄矅矆矇矈矉矊矋矌矍矎矏矐矑矒矓矔矕矖矗矘矙矚矛矜矝矞矟矠矡矢矣矤知矦矧矨矩矪矫矬短矮矯矰矱矲石矴矵矶矷矸矹矺矻矼矽矾矿碀碁碂碃碄碅碆碇碈碉碊碋碌碍碎碏碐碑碒碓碔碕碖碗碘碙碚碛碜碝碞碟碠碡碢碣碤碥碦碧碨碩碪碫碬碭碮碯碰碱碲碳碴碵碶碷碸碹確碻碼碽碾碿磀磁磂磃磄磅磆磇磈磉磊磋磌磍磎磏磐磑磒磓磔磕磖磗磘磙磚磛磜磝磞磟磠磡磢磣磤磥磦磧磨磩磪磫磬磭磮磯磰磱磲磳磴磵磶磷磸磹磺磻磼磽磾磿禀禁禂禃禄禅禆禇禈禉禊禋禌禍禎福禐禑禒禓禔禕禖禗禘禙禚禛禜禝禞禟禠禡禢禣禤禥禦禧禨禩禪禫禬禭禮禯禰禱禲禳禴禵禶禷禸禹禺离禼禽禾禿秀私秂秃秄秅秆秇秈秉秊秋秌种秎秏秐科秒秓秔秕秖秗秘秙秚秛秜秝秞租秠秡秢秣秤秥秦秧秨秩秪秫秬秭秮积称秱秲秳秴秵秶秷秸秹秺移秼秽秾秿窀突窂窃窄窅窆窇窈窉窊窋窌窍窎窏窐窑窒窓窔窕窖窗窘窙窚窛窜窝窞窟窠窡窢窣窤窥窦窧窨窩窪窫窬窭窮窯窰窱窲窳窴窵窶窷窸窹窺窻窼窽窾窿竀竁竂竃竄竅竆竇竈竉竊立竌竍竎竏竐竑竒竓竔竕竖竗竘站竚竛竜竝竞竟章竡竢竣竤童竦竧竨竩竪竫竬竭竮端竰竱竲竳竴竵競竷竸竹竺竻竼竽竾竿简箁箂箃箄箅箆箇箈箉箊箋箌箍箎箏箐箑箒箓箔箕箖算箘箙箚箛箜箝箞箟箠管箢箣箤箥箦箧箨箩箪箫箬箭箮箯箰箱箲箳箴箵箶箷箸箹箺箻箼箽箾箿節篁篂篃範篅篆篇篈築篊篋篌篍篎篏篐篑篒篓篔篕篖篗篘篙篚篛篜篝篞篟篠篡篢篣篤篥篦篧篨篩篪篫篬篭篮篯篰篱篲篳篴篵篶篷篸篹篺篻篼篽篾篿粀粁粂粃粄粅粆粇粈粉粊粋粌粍粎粏粐粑粒粓粔粕粖粗粘粙粚粛粜粝粞粟粠粡粢粣粤粥粦粧粨粩粪粫粬粭粮粯粰粱粲粳粴粵粶粷粸粹粺粻粼粽精粿糀糁糂糃糄糅糆糇糈糉糊糋糌糍糎糏糐糑糒糓糔糕糖糗糘糙糚糛糜糝糞糟糠糡糢糣糤糥糦糧糨糩糪糫糬糭糮糯糰糱糲糳糴糵糶糷糸糹糺系糼糽糾糿綀綁綂綃綄綅綆綇綈綉綊綋綌綍綎綏綐綑綒經綔綕綖綗綘継続綛綜綝綞綟綠綡綢綣綤綥綦綧綨綩綪綫綬維綮綯綰綱網綳綴綵綶綷綸綹綺綻綼綽綾綿緀緁緂緃緄緅緆緇緈緉緊緋緌緍緎総緐緑緒緓緔緕緖緗緘緙線緛緜緝緞緟締緡緢緣緤緥緦緧編緩緪緫緬緭緮緯緰緱緲緳練緵緶緷緸緹緺緻緼緽緾緿纀纁纂纃纄纅纆纇纈纉纊纋續纍纎纏纐纑纒纓纔纕纖纗纘纙纚纛纜纝纞纟纠纡红纣纤纥约级纨纩纪纫纬纭纮纯纰纱纲纳纴纵纶纷纸纹纺纻纼纽纾线绀绁绂练组绅细织终绉绊绋绌绍绎经绐绑绒结绔绕绖绗绘给绚绛络绝绞统绠绡绢绣绤绥绦继绨绩绪绫绬续绮绯绰绱绲绳维绵绶绷绸绹绺绻综绽绾绿羀羁羂羃羄羅羆羇羈羉羊羋羌羍美羏羐羑羒羓羔羕羖羗羘羙羚羛羜羝羞羟羠羡羢羣群羥羦羧羨義羪羫羬羭羮羯羰羱羲羳羴羵羶羷羸羹羺羻羼羽羾羿翀翁翂翃翄翅翆翇翈翉翊翋翌翍翎翏翐翑習翓翔翕翖翗翘翙翚翛翜翝翞翟翠翡翢翣翤翥翦翧翨翩翪翫翬翭翮翯翰翱翲翳翴翵翶翷翸翹翺翻翼翽翾翿肀肁肂肃肄肅肆肇肈肉肊肋肌肍肎肏肐肑肒肓肔肕肖肗肘肙肚肛肜肝肞肟肠股肢肣肤肥肦肧肨肩肪肫肬肭肮肯肰肱育肳肴肵肶肷肸肹肺肻肼肽肾肿胀胁胂胃胄胅胆胇胈胉胊胋背胍胎胏胐胑胒胓胔胕胖胗胘胙胚胛胜胝胞胟胠胡胢胣胤胥胦胧胨胩胪胫胬胭胮胯胰胱胲胳胴胵胶胷胸胹胺胻胼能胾胿膀膁膂膃膄膅膆膇膈膉膊膋膌膍膎膏膐膑膒膓膔膕膖膗膘膙膚膛膜膝膞膟膠膡膢膣膤膥膦膧膨膩膪膫膬膭膮膯膰膱膲膳膴膵膶膷膸膹膺膻膼膽膾膿臀臁臂臃臄臅臆臇臈臉臊臋臌臍臎臏臐臑臒臓臔臕臖臗臘臙臚臛臜臝臞臟臠臡臢臣臤臥臦臧臨臩自臫臬臭臮臯臰臱臲至致臵臶臷臸臹臺臻臼臽臾臿芀芁节芃芄芅芆芇芈芉芊芋芌芍芎芏芐芑芒芓芔芕芖芗芘芙芚芛芜芝芞芟芠芡芢芣芤芥芦芧芨芩芪芫芬芭芮芯芰花芲芳芴芵芶芷芸芹芺芻芼芽芾芿苀苁苂苃苄苅苆苇苈苉苊苋苌苍苎苏苐苑苒苓苔苕苖苗苘苙苚苛苜苝苞苟苠苡苢苣苤若苦苧苨苩苪苫苬苭苮苯苰英苲苳苴苵苶苷苸苹苺苻苼苽苾苿莀莁莂莃莄莅莆莇莈莉莊莋莌莍莎莏莐莑莒莓莔莕莖莗莘莙莚莛莜莝莞莟莠莡莢莣莤莥莦莧莨莩莪莫莬莭莮莯莰莱莲莳莴莵莶获莸莹莺莻莼莽莾莿菀菁菂菃菄菅菆菇菈菉菊菋菌菍菎菏菐菑菒菓菔菕菖菗菘菙菚菛菜菝菞菟菠菡菢菣菤菥菦菧菨菩菪菫菬菭菮華菰菱菲菳菴菵菶菷菸菹菺菻菼菽菾菿蒀蒁蒂蒃蒄蒅蒆蒇蒈蒉蒊蒋蒌蒍蒎蒏蒐蒑蒒蒓蒔蒕蒖蒗蒘蒙蒚蒛蒜蒝蒞蒟蒠蒡蒢蒣蒤蒥蒦蒧蒨蒩蒪蒫蒬蒭蒮蒯蒰蒱蒲蒳蒴蒵蒶蒷蒸蒹蒺蒻蒼蒽蒾蒿蓀蓁蓂蓃蓄蓅蓆蓇蓈蓉蓊蓋蓌蓍蓎蓏蓐蓑蓒蓓蓔蓕蓖蓗蓘蓙蓚蓛蓜蓝蓞蓟蓠蓡蓢蓣蓤蓥蓦蓧蓨蓩蓪蓫蓬蓭蓮蓯蓰蓱蓲蓳蓴蓵蓶蓷蓸蓹蓺蓻蓼蓽蓾蓿薀薁薂薃薄薅薆薇薈薉薊薋薌薍薎薏薐薑薒薓薔薕薖薗薘薙薚薛薜薝薞薟薠薡薢薣薤薥薦薧薨薩薪薫薬薭薮薯薰薱薲薳薴薵薶薷薸薹薺薻薼薽薾薿藀藁藂藃藄藅藆藇藈藉藊藋藌藍藎藏藐藑藒藓藔藕藖藗藘藙藚藛藜藝藞藟藠藡藢藣藤藥藦藧藨藩藪藫藬藭藮藯藰藱藲藳藴藵藶藷藸藹藺藻藼藽藾藿蚀蚁蚂蚃蚄蚅蚆蚇蚈蚉蚊蚋蚌蚍蚎蚏蚐蚑蚒蚓蚔蚕蚖蚗蚘蚙蚚蚛蚜蚝蚞蚟蚠蚡蚢蚣蚤蚥蚦蚧蚨蚩蚪蚫蚬蚭蚮蚯蚰蚱蚲蚳蚴蚵蚶蚷蚸蚹蚺蚻蚼蚽蚾蚿蛀蛁蛂蛃蛄蛅蛆蛇蛈蛉蛊蛋蛌蛍蛎蛏蛐蛑蛒蛓蛔蛕蛖蛗蛘蛙蛚蛛蛜蛝蛞蛟蛠蛡蛢蛣蛤蛥蛦蛧蛨蛩蛪蛫蛬蛭蛮蛯蛰蛱蛲蛳蛴蛵蛶蛷蛸蛹蛺蛻蛼蛽蛾蛿螀螁螂螃螄螅螆螇螈螉螊螋螌融螎螏螐螑螒螓螔螕螖螗螘螙螚螛螜螝螞螟螠螡螢螣螤螥螦螧螨螩螪螫螬螭螮螯螰螱螲螳螴螵螶螷螸螹螺螻螼螽螾螿蟀蟁蟂蟃蟄蟅蟆蟇蟈蟉蟊蟋蟌蟍蟎蟏蟐蟑蟒蟓蟔蟕蟖蟗蟘蟙蟚蟛蟜蟝蟞蟟蟠蟡蟢蟣蟤蟥蟦蟧蟨蟩蟪蟫蟬蟭蟮蟯蟰蟱蟲蟳蟴蟵蟶蟷蟸蟹蟺蟻蟼蟽蟾蟿袀袁袂袃袄袅袆袇袈袉袊袋袌袍袎袏袐袑袒袓袔袕袖袗袘袙袚袛袜袝袞袟袠袡袢袣袤袥袦袧袨袩袪被袬袭袮袯袰袱袲袳袴袵袶袷袸袹袺袻袼袽袾袿裀裁裂裃裄装裆裇裈裉裊裋裌裍裎裏裐裑裒裓裔裕裖裗裘裙裚裛補裝裞裟裠裡裢裣裤裥裦裧裨裩裪裫裬裭裮裯裰裱裲裳裴裵裶裷裸裹裺裻裼製裾裿覀要覂覃覄覅覆覇覈覉覊見覌覍覎規覐覑覒覓覔覕視覗覘覙覚覛覜覝覞覟覠覡覢覣覤覥覦覧覨覩親覫覬覭覮覯覰覱覲観覴覵覶覷覸覹覺覻覼覽覾覿觀见观觃规觅视觇览觉觊觋觌觍觎觏觐觑角觓觔觕觖觗觘觙觚觛觜觝觞觟觠觡觢解觤觥触觧觨觩觪觫觬觭觮觯觰觱觲觳觴觵觶觷觸觹觺觻觼觽觾觿誀誁誂誃誄誅誆誇誈誉誊誋誌認誎誏誐誑誒誓誔誕誖誗誘誙誚誛誜誝語誟誠誡誢誣誤誥誦誧誨誩說誫説読誮誯誰誱課誳誴誵誶誷誸誹誺誻誼誽誾調諀諁諂諃諄諅諆談諈諉諊請諌諍諎諏諐諑諒諓諔諕論諗諘諙諚諛諜諝諞諟諠諡諢諣諤諥諦諧諨諩諪諫諬諭諮諯諰諱諲諳諴諵諶諷諸諹諺諻諼諽諾諿讀讁讂讃讄讅讆讇讈讉變讋讌讍讎讏讐讑讒讓讔讕讖讗讘讙讚讛讜讝讞讟讠计订讣认讥讦讧讨让讪讫讬训议讯记讱讲讳讴讵讶讷许讹论讻讼讽设访诀证诂诃评诅识诇诈诉诊诋诌词诎诏诐译诒诓诔试诖诗诘诙诚诛诜话诞诟诠诡询诣诤该详诧诨诩诪诫诬语诮误诰诱诲诳说诵诶请诸诹诺读诼诽课诿貀貁貂貃貄貅貆貇貈貉貊貋貌貍貎貏貐貑貒貓貔貕貖貗貘貙貚貛貜貝貞貟負財貢貣貤貥貦貧貨販貪貫責貭貮貯貰貱貲貳貴貵貶買貸貹貺費貼貽貾貿賀賁賂賃賄賅賆資賈賉賊賋賌賍賎賏賐賑賒賓賔賕賖賗賘賙賚賛賜賝賞賟賠賡賢賣賤賥賦賧賨賩質賫賬賭賮賯賰賱賲賳賴賵賶賷賸賹賺賻購賽賾賿趀趁趂趃趄超趆趇趈趉越趋趌趍趎趏趐趑趒趓趔趕趖趗趘趙趚趛趜趝趞趟趠趡趢趣趤趥趦趧趨趩趪趫趬趭趮趯趰趱趲足趴趵趶趷趸趹趺趻趼趽趾趿跀跁跂跃跄跅跆跇跈跉跊跋跌跍跎跏跐跑跒跓跔跕跖跗跘跙跚跛跜距跞跟跠跡跢跣跤跥跦跧跨跩跪跫跬跭跮路跰跱跲跳跴践跶跷跸跹跺跻跼跽跾跿躀躁躂躃躄躅躆躇躈躉躊躋躌躍躎躏躐躑躒躓躔躕躖躗躘躙躚躛躜躝躞躟躠躡躢躣躤躥躦躧躨躩躪身躬躭躮躯躰躱躲躳躴躵躶躷躸躹躺躻躼躽躾躿軀軁軂軃軄軅軆軇軈軉車軋軌軍軎軏軐軑軒軓軔軕軖軗軘軙軚軛軜軝軞軟軠軡転軣軤軥軦軧軨軩軪軫軬軭軮軯軰軱軲軳軴軵軶軷軸軹軺軻軼軽軾軿辀辁辂较辄辅辆辇辈辉辊辋辌辍辎辏辐辑辒输辔辕辖辗辘辙辚辛辜辝辞辟辠辡辢辣辤辥辦辧辨辩辪辫辬辭辮辯辰辱農辳辴辵辶辷辸边辺辻込辽达辿迀迁迂迃迄迅迆过迈迉迊迋迌迍迎迏运近迒迓返迕迖迗还这迚进远违连迟迠迡迢迣迤迥迦迧迨迩迪迫迬迭迮迯述迱迲迳迴迵迶迷迸迹迺迻迼追迾迿邀邁邂邃還邅邆邇邈邉邊邋邌邍邎邏邐邑邒邓邔邕邖邗邘邙邚邛邜邝邞邟邠邡邢那邤邥邦邧邨邩邪邫邬邭邮邯邰邱邲邳邴邵邶邷邸邹邺邻邼邽邾邿郀郁郂郃郄郅郆郇郈郉郊郋郌郍郎郏郐郑郒郓郔郕郖郗郘郙郚郛郜郝郞郟郠郡郢郣郤郥郦郧部郩郪郫郬郭郮郯郰郱郲郳郴郵郶郷郸郹郺郻郼都郾郿醀醁醂醃醄醅醆醇醈醉醊醋醌醍醎醏醐醑醒醓醔醕醖醗醘醙醚醛醜醝醞醟醠醡醢醣醤醥醦醧醨醩醪醫醬醭醮醯醰醱醲醳醴醵醶醷醸醹醺醻醼醽醾醿釀釁釂釃釄釅釆采釈釉释釋里重野量釐金釒釓釔釕釖釗釘釙釚釛釜針釞釟釠釡釢釣釤釥釦釧釨釩釪釫釬釭釮釯釰釱釲釳釴釵釶釷釸釹釺釻釼釽釾釿銀銁銂銃銄銅銆銇銈銉銊銋銌銍銎銏銐銑銒銓銔銕銖銗銘銙銚銛銜銝銞銟銠銡銢銣銤銥銦銧銨銩銪銫銬銭銮銯銰銱銲銳銴銵銶銷銸銹銺銻銼銽銾銿鋀鋁鋂鋃鋄鋅鋆鋇鋈鋉鋊鋋鋌鋍鋎鋏鋐鋑鋒鋓鋔鋕鋖鋗鋘鋙鋚鋛鋜鋝鋞鋟鋠鋡鋢鋣鋤鋥鋦鋧鋨鋩鋪鋫鋬鋭鋮鋯鋰鋱鋲鋳鋴鋵鋶鋷鋸鋹鋺鋻鋼鋽鋾鋿鎀鎁鎂鎃鎄鎅鎆鎇鎈鎉鎊鎋鎌鎍鎎鎏鎐鎑鎒鎓鎔鎕鎖鎗鎘鎙鎚鎛鎜鎝鎞鎟鎠鎡鎢鎣鎤鎥鎦鎧鎨鎩鎪鎫鎬鎭鎮鎯鎰鎱鎲鎳鎴鎵鎶鎷鎸鎹鎺鎻鎼鎽鎾鎿鏀鏁鏂鏃鏄鏅鏆鏇鏈鏉鏊鏋鏌鏍鏎鏏鏐鏑鏒鏓鏔鏕鏖鏗鏘鏙鏚鏛鏜鏝鏞鏟鏠鏡鏢鏣鏤鏥鏦鏧鏨鏩鏪鏫鏬鏭鏮鏯鏰鏱鏲鏳鏴鏵鏶鏷鏸鏹鏺鏻鏼鏽鏾鏿钀钁钂钃钄钅钆钇针钉钊钋钌钍钎钏钐钑钒钓钔钕钖钗钘钙钚钛钜钝钞钟钠钡钢钣钤钥钦钧钨钩钪钫钬钭钮钯钰钱钲钳钴钵钶钷钸钹钺钻钼钽钾钿铀铁铂铃铄铅铆铇铈铉铊铋铌铍铎铏铐铑铒铓铔铕铖铗铘铙铚铛铜铝铞铟铠铡铢铣铤铥铦铧铨铩铪铫铬铭铮铯铰铱铲铳铴铵银铷铸铹铺铻铼铽链铿門閁閂閃閄閅閆閇閈閉閊開閌閍閎閏閐閑閒間閔閕閖閗閘閙閚閛閜閝閞閟閠閡関閣閤閥閦閧閨閩閪閫閬閭閮閯閰閱閲閳閴閵閶閷閸閹閺閻閼閽閾閿闀闁闂闃闄闅闆闇闈闉闊闋闌闍闎闏闐闑闒闓闔闕闖闗闘闙闚闛關闝闞闟闠闡闢闣闤闥闦闧门闩闪闫闬闭问闯闰闱闲闳间闵闶闷闸闹闺闻闼闽闾闿隀隁隂隃隄隅隆隇隈隉隊隋隌隍階随隐隑隒隓隔隕隖隗隘隙隚際障隝隞隟隠隡隢隣隤隥隦隧隨隩險隫隬隭隮隯隰隱隲隳隴隵隶隷隸隹隺隻隼隽难隿雀雁雂雃雄雅集雇雈雉雊雋雌雍雎雏雐雑雒雓雔雕雖雗雘雙雚雛雜雝雞雟雠雡離難雤雥雦雧雨雩雪雫雬雭雮雯雰雱雲雳雴雵零雷雸雹雺電雼雽雾雿鞀鞁鞂鞃鞄鞅鞆鞇鞈鞉鞊鞋鞌鞍鞎鞏鞐鞑鞒鞓鞔鞕鞖鞗鞘鞙鞚鞛鞜鞝鞞鞟鞠鞡鞢鞣鞤鞥鞦鞧鞨鞩鞪鞫鞬鞭鞮鞯鞰鞱鞲鞳鞴鞵鞶鞷鞸鞹鞺鞻鞼鞽鞾鞿韀韁韂韃韄韅韆韇韈韉韊韋韌韍韎韏韐韑韒韓韔韕韖韗韘韙韚韛韜韝韞韟韠韡韢韣韤韥韦韧韨韩韪韫韬韭韮韯韰韱韲音韴韵韶韷韸韹韺韻韼韽韾響颀颁颂颃预颅领颇颈颉颊颋颌颍颎颏颐频颒颓颔颕颖颗题颙颚颛颜额颞颟颠颡颢颣颤颥颦颧風颩颪颫颬颭颮颯颰颱颲颳颴颵颶颷颸颹颺颻颼颽颾颿飀飁飂飃飄飅飆飇飈飉飊飋飌飍风飏飐飑飒飓飔飕飖飗飘飙飚飛飜飝飞食飠飡飢飣飤飥飦飧飨飩飪飫飬飭飮飯飰飱飲飳飴飵飶飷飸飹飺飻飼飽飾飿馀馁馂馃馄馅馆馇馈馉馊馋馌馍馎馏馐馑馒馓馔馕首馗馘香馚馛馜馝馞馟馠馡馢馣馤馥馦馧馨馩馪馫馬馭馮馯馰馱馲馳馴馵馶馷馸馹馺馻馼馽馾馿駀駁駂駃駄駅駆駇駈駉駊駋駌駍駎駏駐駑駒駓駔駕駖駗駘駙駚駛駜駝駞駟駠駡駢駣駤駥駦駧駨駩駪駫駬駭駮駯駰駱駲駳駴駵駶駷駸駹駺駻駼駽駾駿骀骁骂骃骄骅骆骇骈骉骊骋验骍骎骏骐骑骒骓骔骕骖骗骘骙骚骛骜骝骞骟骠骡骢骣骤骥骦骧骨骩骪骫骬骭骮骯骰骱骲骳骴骵骶骷骸骹骺骻骼骽骾骿髀髁髂髃髄髅髆髇髈髉髊髋髌髍髎髏髐髑髒髓體髕髖髗高髙髚髛髜髝髞髟髠髡髢髣髤髥髦髧髨髩髪髫髬髭髮髯髰髱髲髳髴髵髶髷髸髹髺髻髼髽髾髿鮀鮁鮂鮃鮄鮅鮆鮇鮈鮉鮊鮋鮌鮍鮎鮏鮐鮑鮒鮓鮔鮕鮖鮗鮘鮙鮚鮛鮜鮝鮞鮟鮠鮡鮢鮣鮤鮥鮦鮧鮨鮩鮪鮫鮬鮭鮮鮯鮰鮱鮲鮳鮴鮵鮶鮷鮸鮹鮺鮻鮼鮽鮾鮿鯀鯁鯂鯃鯄鯅鯆鯇鯈鯉鯊鯋鯌鯍鯎鯏鯐鯑鯒鯓鯔鯕鯖鯗鯘鯙鯚鯛鯜鯝鯞鯟鯠鯡鯢鯣鯤鯥鯦鯧鯨鯩鯪鯫鯬鯭鯮鯯鯰鯱鯲鯳鯴鯵鯶鯷鯸鯹鯺鯻鯼鯽鯾鯿鲀鲁鲂鲃鲄鲅鲆鲇鲈鲉鲊鲋鲌鲍鲎鲏鲐鲑鲒鲓鲔鲕鲖鲗鲘鲙鲚鲛鲜鲝鲞鲟鲠鲡鲢鲣鲤鲥鲦鲧鲨鲩鲪鲫鲬鲭鲮鲯鲰鲱鲲鲳鲴鲵鲶鲷鲸鲹鲺鲻鲼鲽鲾鲿鳀鳁鳂鳃鳄鳅鳆鳇鳈鳉鳊鳋鳌鳍鳎鳏鳐鳑鳒鳓鳔鳕鳖鳗鳘鳙鳚鳛鳜鳝鳞鳟鳠鳡鳢鳣鳤鳥鳦鳧鳨鳩鳪鳫鳬鳭鳮鳯鳰鳱鳲鳳鳴鳵鳶鳷鳸鳹鳺鳻鳼鳽鳾鳿鶀鶁鶂鶃鶄鶅鶆鶇鶈鶉鶊鶋鶌鶍鶎鶏鶐鶑鶒鶓鶔鶕鶖鶗鶘鶙鶚鶛鶜鶝鶞鶟鶠鶡鶢鶣鶤鶥鶦鶧鶨鶩鶪鶫鶬鶭鶮鶯鶰鶱鶲鶳鶴鶵鶶鶷鶸鶹鶺鶻鶼鶽鶾鶿鷀鷁鷂鷃鷄鷅鷆鷇鷈鷉鷊鷋鷌鷍鷎鷏鷐鷑鷒鷓鷔鷕鷖鷗鷘鷙鷚鷛鷜鷝鷞鷟鷠鷡鷢鷣鷤鷥鷦鷧鷨鷩鷪鷫鷬鷭鷮鷯鷰鷱鷲鷳鷴鷵鷶鷷鷸鷹鷺鷻鷼鷽鷾鷿麀麁麂麃麄麅麆麇麈麉麊麋麌麍麎麏麐麑麒麓麔麕麖麗麘麙麚麛麜麝麞麟麠麡麢麣麤麥麦麧麨麩麪麫麬麭麮麯麰麱麲麳麴麵麶麷麸麹麺麻麼麽麾麿黀黁黂黃黄黅黆黇黈黉黊黋黌黍黎黏黐黑黒黓黔黕黖黗默黙黚黛黜黝點黟黠黡黢黣黤黥黦黧黨黩黪黫黬黭黮黯黰黱黲黳黴黵黶黷黸黹黺黻黼黽黾黿龀龁龂龃龄龅龆龇龈龉龊龋龌龍龎龏龐龑龒龓龔龕龖龗龘龙龚龛龜龝龞龟龠龡龢龣龤龥龦龧龨龩龪龫龬龭龮龯龰龱龲龳龴龵龶龷龸龹龺龻龼龽龾龿鿀鿁鿂鿃鿄鿅鿆鿇鿈鿉鿊鿋鿌鿍鿎鿏鿐鿑鿒鿓鿔鿕鿖鿗鿘鿙鿚鿛鿜鿝鿞鿟鿠鿡鿢鿣鿤鿥鿦鿧鿨鿩鿪鿫鿬鿭鿮鿯鿰鿱鿲鿳鿴鿵鿶鿷鿸鿹鿺鿻鿼鿽鿾鿿ꂀꂁꂂꂃꂄꂅꂆꂇꂈꂉꂊꂋꂌꂍꂎꂏꂐꂑꂒꂓꂔꂕꂖꂗꂘꂙꂚꂛꂜꂝꂞꂟꂠꂡꂢꂣꂤꂥꂦꂧꂨꂩꂪꂫꂬꂭꂮꂯꂰꂱꂲꂳꂴꂵꂶꂷꂸꂹꂺꂻꂼꂽꂾꂿꃀꃁꃂꃃꃄꃅꃆꃇꃈꃉꃊꃋꃌꃍꃎꃏꃐꃑꃒꃓꃔꃕꃖꃗꃘꃙꃚꃛꃜꃝꃞꃟꃠꃡꃢꃣꃤꃥꃦꃧꃨꃩꃪꃫꃬꃭꃮꃯꃰꃱꃲꃳꃴꃵꃶꃷꃸꃹꃺꃻꃼꃽꃾꃿꆀꆁꆂꆃꆄꆅꆆꆇꆈꆉꆊꆋꆌꆍꆎꆏꆐꆑꆒꆓꆔꆕꆖꆗꆘꆙꆚꆛꆜꆝꆞꆟꆠꆡꆢꆣꆤꆥꆦꆧꆨꆩꆪꆫꆬꆭꆮꆯꆰꆱꆲꆳꆴꆵꆶꆷꆸꆹꆺꆻꆼꆽꆾꆿꇀꇁꇂꇃꇄꇅꇆꇇꇈꇉꇊꇋꇌꇍꇎꇏꇐꇑꇒꇓꇔꇕꇖꇗꇘꇙꇚꇛꇜꇝꇞꇟꇠꇡꇢꇣꇤꇥꇦꇧꇨꇩꇪꇫꇬꇭꇮꇯꇰꇱꇲꇳꇴꇵꇶꇷꇸꇹꇺꇻꇼꇽꇾꇿꊀꊁꊂꊃꊄꊅꊆꊇꊈꊉꊊꊋꊌꊍꊎꊏꊐꊑꊒꊓꊔꊕꊖꊗꊘꊙꊚꊛꊜꊝꊞꊟꊠꊡꊢꊣꊤꊥꊦꊧꊨꊩꊪꊫꊬꊭꊮꊯꊰꊱꊲꊳꊴꊵꊶꊷꊸꊹꊺꊻꊼꊽꊾꊿꋀꋁꋂꋃꋄꋅꋆꋇꋈꋉꋊꋋꋌꋍꋎꋏꋐꋑꋒꋓꋔꋕꋖꋗꋘꋙꋚꋛꋜꋝꋞꋟꋠꋡꋢꋣꋤꋥꋦꋧꋨꋩꋪꋫꋬꋭꋮꋯꋰꋱꋲꋳꋴꋵꋶꋷꋸꋹꋺꋻꋼꋽꋾꋿꎀꎁꎂꎃꎄꎅꎆꎇꎈꎉꎊꎋꎌꎍꎎꎏꎐꎑꎒꎓꎔꎕꎖꎗꎘꎙꎚꎛꎜꎝꎞꎟꎠꎡꎢꎣꎤꎥꎦꎧꎨꎩꎪꎫꎬꎭꎮꎯꎰꎱꎲꎳꎴꎵꎶꎷꎸꎹꎺꎻꎼꎽꎾꎿꏀꏁꏂꏃꏄꏅꏆꏇꏈꏉꏊꏋꏌꏍꏎꏏꏐꏑꏒꏓꏔꏕꏖꏗꏘꏙꏚꏛꏜꏝꏞꏟꏠꏡꏢꏣꏤꏥꏦꏧꏨꏩꏪꏫꏬꏭꏮꏯꏰꏱꏲꏳꏴꏵꏶꏷꏸꏹꏺꏻꏼꏽꏾꏿꒀꒁꒂꒃꒄꒅꒆꒇꒈꒉꒊꒋꒌ꒍꒎꒏꒐꒑꒒꒓꒔꒕꒖꒗꒘꒙꒚꒛꒜꒝꒞꒟꒠꒡꒢꒣꒤꒥꒦꒧꒨꒩꒪꒫꒬꒭꒮꒯꒰꒱꒲꒳꒴꒵꒶꒷꒸꒹꒺꒻꒼꒽꒾꒿꓀꓁꓂꓃꓄꓅꓆꓇꓈꓉꓊꓋꓌꓍꓎꓏ꓐꓑꓒꓓꓔꓕꓖꓗꓘꓙꓚꓛꓜꓝꓞꓟꓠꓡꓢꓣꓤꓥꓦꓧꓨꓩꓪꓫꓬꓭꓮꓯꓰꓱꓲꓳꓴꓵꓶꓷꓸꓹꓺꓻꓼꓽ꓾꓿ꖀꖁꖂꖃꖄꖅꖆꖇꖈꖉꖊꖋꖌꖍꖎꖏꖐꖑꖒꖓꖔꖕꖖꖗꖘꖙꖚꖛꖜꖝꖞꖟꖠꖡꖢꖣꖤꖥꖦꖧꖨꖩꖪꖫꖬꖭꖮꖯꖰꖱꖲꖳꖴꖵꖶꖷꖸꖹꖺꖻꖼꖽꖾꖿꗀꗁꗂꗃꗄꗅꗆꗇꗈꗉꗊꗋꗌꗍꗎꗏꗐꗑꗒꗓꗔꗕꗖꗗꗘꗙꗚꗛꗜꗝꗞꗟꗠꗡꗢꗣꗤꗥꗦꗧꗨꗩꗪꗫꗬꗭꗮꗯꗰꗱꗲꗳꗴꗵꗶꗷꗸꗹꗺꗻꗼꗽꗾꗿꚀꚁꚂꚃꚄꚅꚆꚇꚈꚉꚊꚋꚌꚍꚎꚏꚐꚑꚒꚓꚔꚕꚖꚗꚘꚙꚚꚛꚜꚝꚞꚟꚠꚡꚢꚣꚤꚥꚦꚧꚨꚩꚪꚫꚬꚭꚮꚯꚰꚱꚲꚳꚴꚵꚶꚷꚸꚹꚺꚻꚼꚽꚾꚿꛀꛁꛂꛃꛄꛅꛆꛇꛈꛉꛊꛋꛌꛍꛎꛏꛐꛑꛒꛓꛔꛕꛖꛗꛘꛙꛚꛛꛜꛝꛞꛟꛠꛡꛢꛣꛤꛥꛦꛧꛨꛩꛪꛫꛬꛭꛮꛯ꛰꛱꛲꛳꛴꛵꛶꛷꛸꛹꛺꛻꛼꛽꛾꛿ꞀꞁꞂꞃꞄꞅꞆꞇꞈ꞉꞊ꞋꞌꞍꞎꞏꞐꞑꞒꞓꞔꞕꞖꞗꞘꞙꞚꞛꞜꞝꞞꞟꞠꞡꞢꞣꞤꞥꞦꞧꞨꞩꞪꞫꞬꞭꞮꞯꞰꞱꞲꞳꞴꞵꞶꞷꞸꞹꞺꞻꞼꞽꞾꞿꟀꟁꟂꟃꟄꟅꟆꟇꟈꟉꟊꟋꟌꟍ꟎꟏Ꟑꟑ꟒ꟓ꟔ꟕꟖꟗꟘꟙꟚꟛꟜ꟝꟞꟟꟠꟡꟢꟣꟤꟥꟦꟧꟨꟩꟪꟫꟬꟭꟮꟯꟰꟱ꟲꟳꟴꟵꟶꟷꟸꟹꟺꟻꟼꟽꟾꟿꢀꢁꢂꢃꢄꢅꢆꢇꢈꢉꢊꢋꢌꢍꢎꢏꢐꢑꢒꢓꢔꢕꢖꢗꢘꢙꢚꢛꢜꢝꢞꢟꢠꢡꢢꢣꢤꢥꢦꢧꢨꢩꢪꢫꢬꢭꢮꢯꢰꢱꢲꢳꢴꢵꢶꢷꢸꢹꢺꢻꢼꢽꢾꢿꣀꣁꣂꣃ꣄ꣅ꣆꣇꣈꣉꣊꣋꣌꣍꣎꣏꣐꣑꣒꣓꣔꣕꣖꣗꣘꣙꣚꣛꣜꣝꣞꣟꣠꣡꣢꣣꣤꣥꣦꣧꣨꣩꣪꣫꣬꣭꣮꣯꣰꣱ꣲꣳꣴꣵꣶꣷ꣸꣹꣺ꣻ꣼ꣽꣾꣿꦀꦁꦂꦃꦄꦅꦆꦇꦈꦉꦊꦋꦌꦍꦎꦏꦐꦑꦒꦓꦔꦕꦖꦗꦘꦙꦚꦛꦜꦝꦞꦟꦠꦡꦢꦣꦤꦥꦦꦧꦨꦩꦪꦫꦬꦭꦮꦯꦰꦱꦲ꦳ꦴꦵꦶꦷꦸꦹꦺꦻꦼꦽꦾꦿ꧀꧁꧂꧃꧄꧅꧆꧇꧈꧉꧊꧋꧌꧍꧎ꧏ꧐꧑꧒꧓꧔꧕꧖꧗꧘꧙꧚꧛꧜꧝꧞꧟ꧠꧡꧢꧣꧤꧥꧦꧧꧨꧩꧪꧫꧬꧭꧮꧯ꧰꧱꧲꧳꧴꧵꧶꧷꧸꧹ꧺꧻꧼꧽꧾ꧿ꪀꪁꪂꪃꪄꪅꪆꪇꪈꪉꪊꪋꪌꪍꪎꪏꪐꪑꪒꪓꪔꪕꪖꪗꪘꪙꪚꪛꪜꪝꪞꪟꪠꪡꪢꪣꪤꪥꪦꪧꪨꪩꪪꪫꪬꪭꪮꪯꪰꪱꪴꪲꪳꪵꪶꪷꪸꪹꪺꪻꪼꪽꪾ꪿ꫀ꫁ꫂ꫃꫄꫅꫆꫇꫈꫉꫊꫋꫌꫍꫎꫏꫐꫑꫒꫓꫔꫕꫖꫗꫘꫙꫚ꫛꫜꫝ꫞꫟ꫠꫡꫢꫣꫤꫥꫦꫧꫨꫩꫪꫫꫬꫭꫮꫯ꫰꫱ꫲꫳꫴꫵ꫶꫷꫸꫹꫺꫻꫼꫽꫾꫿ꮀꮁꮂꮃꮄꮅꮆꮇꮈꮉꮊꮋꮌꮍꮎꮏꮐꮑꮒꮓꮔꮕꮖꮗꮘꮙꮚꮛꮜꮝꮞꮟꮠꮡꮢꮣꮤꮥꮦꮧꮨꮩꮪꮫꮬꮭꮮꮯꮰꮱꮲꮳꮴꮵꮶꮷꮸꮹꮺꮻꮼꮽꮾꮿꯀꯁꯂꯃꯄꯅꯆꯇꯈꯉꯊꯋꯌꯍꯎꯏꯐꯑꯒꯓꯔꯕꯖꯗꯘꯙꯚꯛꯜꯝꯞꯟꯠꯡꯢꯣꯤꯥꯦꯧꯨꯩꯪ꯫꯬꯭꯮꯯꯰꯱꯲꯳꯴꯵꯶꯷꯸꯹꯺꯻꯼꯽꯾꯿검겁겂것겄겅겆겇겈겉겊겋게겍겎겏겐겑겒겓겔겕겖겗겘겙겚겛겜겝겞겟겠겡겢겣겤겥겦겧겨격겪겫견겭겮겯결겱겲겳겴겵겶겷겸겹겺겻겼경겾겿곀곁곂곃계곅곆곇곈곉곊곋곌곍곎곏곐곑곒곓곔곕곖곗곘곙곚곛곜곝곞곟고곡곢곣곤곥곦곧골곩곪곫곬곭곮곯곰곱곲곳곴공곶곷곸곹곺곻과곽곾곿궀궁궂궃궄궅궆궇궈궉궊궋권궍궎궏궐궑궒궓궔궕궖궗궘궙궚궛궜궝궞궟궠궡궢궣궤궥궦궧궨궩궪궫궬궭궮궯궰궱궲궳궴궵궶궷궸궹궺궻궼궽궾궿귀귁귂귃귄귅귆귇귈귉귊귋귌귍귎귏귐귑귒귓귔귕귖귗귘귙귚귛규귝귞귟균귡귢귣귤귥귦귧귨귩귪귫귬귭귮귯귰귱귲귳귴귵귶귷그극귺귻근귽귾귿꺀꺁꺂꺃꺄꺅꺆꺇꺈꺉꺊꺋꺌꺍꺎꺏꺐꺑꺒꺓꺔꺕꺖꺗꺘꺙꺚꺛꺜꺝꺞꺟꺠꺡꺢꺣꺤꺥꺦꺧꺨꺩꺪꺫꺬꺭꺮꺯꺰꺱꺲꺳꺴꺵꺶꺷꺸꺹꺺꺻꺼꺽꺾꺿껀껁껂껃껄껅껆껇껈껉껊껋껌껍껎껏껐껑껒껓껔껕껖껗께껙껚껛껜껝껞껟껠껡껢껣껤껥껦껧껨껩껪껫껬껭껮껯껰껱껲껳껴껵껶껷껸껹껺껻껼껽껾껿꾀꾁꾂꾃꾄꾅꾆꾇꾈꾉꾊꾋꾌꾍꾎꾏꾐꾑꾒꾓꾔꾕꾖꾗꾘꾙꾚꾛꾜꾝꾞꾟꾠꾡꾢꾣꾤꾥꾦꾧꾨꾩꾪꾫꾬꾭꾮꾯꾰꾱꾲꾳꾴꾵꾶꾷꾸꾹꾺꾻꾼꾽꾾꾿꿀꿁꿂꿃꿄꿅꿆꿇꿈꿉꿊꿋꿌꿍꿎꿏꿐꿑꿒꿓꿔꿕꿖꿗꿘꿙꿚꿛꿜꿝꿞꿟꿠꿡꿢꿣꿤꿥꿦꿧꿨꿩꿪꿫꿬꿭꿮꿯꿰꿱꿲꿳꿴꿵꿶꿷꿸꿹꿺꿻꿼꿽꿾꿿낀낁낂낃낄낅낆낇낈낉낊낋낌낍낎낏낐낑낒낓낔낕낖낗나낙낚낛난낝낞낟날낡낢낣낤낥낦낧남납낪낫났낭낮낯낰낱낲낳내낵낶낷낸낹낺낻낼낽낾낿냀냁냂냃냄냅냆냇냈냉냊냋냌냍냎냏냐냑냒냓냔냕냖냗냘냙냚냛냜냝냞냟냠냡냢냣냤냥냦냧냨냩냪냫냬냭냮냯냰냱냲냳냴냵냶냷냸냹냺냻냼냽냾냿놀놁놂놃놄놅놆놇놈놉놊놋놌농놎놏놐놑높놓놔놕놖놗놘놙놚놛놜놝놞놟놠놡놢놣놤놥놦놧놨놩놪놫놬놭놮놯놰놱놲놳놴놵놶놷놸놹놺놻놼놽놾놿뇀뇁뇂뇃뇄뇅뇆뇇뇈뇉뇊뇋뇌뇍뇎뇏뇐뇑뇒뇓뇔뇕뇖뇗뇘뇙뇚뇛뇜뇝뇞뇟뇠뇡뇢뇣뇤뇥뇦뇧뇨뇩뇪뇫뇬뇭뇮뇯뇰뇱뇲뇳뇴뇵뇶뇷뇸뇹뇺뇻뇼뇽뇾뇿늀늁늂늃늄늅늆늇늈늉늊늋늌늍늎늏느늑늒늓는늕늖늗늘늙늚늛늜늝늞늟늠늡늢늣늤능늦늧늨늩늪늫늬늭늮늯늰늱늲늳늴늵늶늷늸늹늺늻늼늽늾늿닀닁닂닃닄닅닆닇니닉닊닋닌닍닎닏닐닑닒닓닔닕닖닗님닙닚닛닜닝닞닟닠닡닢닣다닥닦닧단닩닪닫달닭닮닯닰닱닲닳담답닶닷닸당닺닻닼닽닾닿뎀뎁뎂뎃뎄뎅뎆뎇뎈뎉뎊뎋뎌뎍뎎뎏뎐뎑뎒뎓뎔뎕뎖뎗뎘뎙뎚뎛뎜뎝뎞뎟뎠뎡뎢뎣뎤뎥뎦뎧뎨뎩뎪뎫뎬뎭뎮뎯뎰뎱뎲뎳뎴뎵뎶뎷뎸뎹뎺뎻뎼뎽뎾뎿돀돁돂돃도독돆돇돈돉돊돋돌돍돎돏돐돑돒돓돔돕돖돗돘동돚돛돜돝돞돟돠돡돢돣돤돥돦돧돨돩돪돫돬돭돮돯돰돱돲돳돴돵돶돷돸돹돺돻돼돽돾돿뒀뒁뒂뒃뒄뒅뒆뒇뒈뒉뒊뒋뒌뒍뒎뒏뒐뒑뒒뒓뒔뒕뒖뒗뒘뒙뒚뒛뒜뒝뒞뒟뒠뒡뒢뒣뒤뒥뒦뒧뒨뒩뒪뒫뒬뒭뒮뒯뒰뒱뒲뒳뒴뒵뒶뒷뒸뒹뒺뒻뒼뒽뒾뒿듀듁듂듃듄듅듆듇듈듉듊듋듌듍듎듏듐듑듒듓듔듕듖듗듘듙듚듛드득듞듟든듡듢듣들듥듦듧듨듩듪듫듬듭듮듯듰등듲듳듴듵듶듷듸듹듺듻듼듽듾듿떀떁떂떃떄떅떆떇떈떉떊떋떌떍떎떏떐떑떒떓떔떕떖떗떘떙떚떛떜떝떞떟떠떡떢떣떤떥떦떧떨떩떪떫떬떭떮떯떰떱떲떳떴떵떶떷떸떹떺떻떼떽떾떿뗀뗁뗂뗃뗄뗅뗆뗇뗈뗉뗊뗋뗌뗍뗎뗏뗐뗑뗒뗓뗔뗕뗖뗗뗘뗙뗚뗛뗜뗝뗞뗟뗠뗡뗢뗣뗤뗥뗦뗧뗨뗩뗪뗫뗬뗭뗮뗯뗰뗱뗲뗳뗴뗵뗶뗷뗸뗹뗺뗻뗼뗽뗾뗿뚀뚁뚂뚃뚄뚅뚆뚇뚈뚉뚊뚋뚌뚍뚎뚏뚐뚑뚒뚓뚔뚕뚖뚗뚘뚙뚚뚛뚜뚝뚞뚟뚠뚡뚢뚣뚤뚥뚦뚧뚨뚩뚪뚫뚬뚭뚮뚯뚰뚱뚲뚳뚴뚵뚶뚷뚸뚹뚺뚻뚼뚽뚾뚿뛀뛁뛂뛃뛄뛅뛆뛇뛈뛉뛊뛋뛌뛍뛎뛏뛐뛑뛒뛓뛔뛕뛖뛗뛘뛙뛚뛛뛜뛝뛞뛟뛠뛡뛢뛣뛤뛥뛦뛧뛨뛩뛪뛫뛬뛭뛮뛯뛰뛱뛲뛳뛴뛵뛶뛷뛸뛹뛺뛻뛼뛽뛾뛿란랁랂랃랄랅랆랇랈랉랊랋람랍랎랏랐랑랒랓랔랕랖랗래랙랚랛랜랝랞랟랠랡랢랣랤랥랦랧램랩랪랫랬랭랮랯랰랱랲랳랴략랶랷랸랹랺랻랼랽랾랿럀럁럂럃럄럅럆럇럈량럊럋럌럍럎럏럐럑럒럓럔럕럖럗럘럙럚럛럜럝럞럟럠럡럢럣럤럥럦럧럨럩럪럫러럭럮럯런럱럲럳럴럵럶럷럸럹럺럻럼럽럾럿뢀뢁뢂뢃뢄뢅뢆뢇뢈뢉뢊뢋뢌뢍뢎뢏뢐뢑뢒뢓뢔뢕뢖뢗뢘뢙뢚뢛뢜뢝뢞뢟뢠뢡뢢뢣뢤뢥뢦뢧뢨뢩뢪뢫뢬뢭뢮뢯뢰뢱뢲뢳뢴뢵뢶뢷뢸뢹뢺뢻뢼뢽뢾뢿룀룁룂룃룄룅룆룇룈룉룊룋료룍룎룏룐룑룒룓룔룕룖룗룘룙룚룛룜룝룞룟룠룡룢룣룤룥룦룧루룩룪룫룬룭룮룯룰룱룲룳룴룵룶룷룸룹룺룻룼룽룾룿릀릁릂릃름릅릆릇릈릉릊릋릌릍릎릏릐릑릒릓릔릕릖릗릘릙릚릛릜릝릞릟릠릡릢릣릤릥릦릧릨릩릪릫리릭릮릯린릱릲릳릴릵릶릷릸릹릺릻림립릾릿맀링맂맃맄맅맆맇마막맊맋만맍많맏말맑맒맓맔맕맖맗맘맙맚맛맜망맞맟맠맡맢맣매맥맦맧맨맩맪맫맬맭맮맯맰맱맲맳맴맵맶맷맸맹맺맻맼맽맾맿몀몁몂몃몄명몆몇몈몉몊몋몌몍몎몏몐몑몒몓몔몕몖몗몘몙몚몛몜몝몞몟몠몡몢몣몤몥몦몧모목몪몫몬몭몮몯몰몱몲몳몴몵몶몷몸몹몺못몼몽몾몿뫀뫁뫂뫃뫄뫅뫆뫇뫈뫉뫊뫋뫌뫍뫎뫏뫐뫑뫒뫓뫔뫕뫖뫗뫘뫙뫚뫛뫜뫝뫞뫟뫠뫡뫢뫣뫤뫥뫦뫧뫨뫩뫪뫫뫬뫭뫮뫯뫰뫱뫲뫳뫴뫵뫶뫷뫸뫹뫺뫻뫼뫽뫾뫿뮀뮁뮂뮃뮄뮅뮆뮇뮈뮉뮊뮋뮌뮍뮎뮏뮐뮑뮒뮓뮔뮕뮖뮗뮘뮙뮚뮛뮜뮝뮞뮟뮠뮡뮢뮣뮤뮥뮦뮧뮨뮩뮪뮫뮬뮭뮮뮯뮰뮱뮲뮳뮴뮵뮶뮷뮸뮹뮺뮻뮼뮽뮾뮿므믁믂믃믄믅믆믇믈믉믊믋믌믍믎믏믐믑믒믓믔믕믖믗믘믙믚믛믜믝믞믟믠믡믢믣믤믥믦믧믨믩믪믫믬믭믮믯믰믱믲믳믴믵믶믷미믹믺믻민믽믾믿벀벁벂벃버벅벆벇번벉벊벋벌벍벎벏벐벑벒벓범법벖벗벘벙벚벛벜벝벞벟베벡벢벣벤벥벦벧벨벩벪벫벬벭벮벯벰벱벲벳벴벵벶벷벸벹벺벻벼벽벾벿변볁볂볃별볅볆볇볈볉볊볋볌볍볎볏볐병볒볓볔볕볖볗볘볙볚볛볜볝볞볟볠볡볢볣볤볥볦볧볨볩볪볫볬볭볮볯볰볱볲볳보복볶볷본볹볺볻볼볽볾볿부북붂붃분붅붆붇불붉붊붋붌붍붎붏붐붑붒붓붔붕붖붗붘붙붚붛붜붝붞붟붠붡붢붣붤붥붦붧붨붩붪붫붬붭붮붯붰붱붲붳붴붵붶붷붸붹붺붻붼붽붾붿뷀뷁뷂뷃뷄뷅뷆뷇뷈뷉뷊뷋뷌뷍뷎뷏뷐뷑뷒뷓뷔뷕뷖뷗뷘뷙뷚뷛뷜뷝뷞뷟뷠뷡뷢뷣뷤뷥뷦뷧뷨뷩뷪뷫뷬뷭뷮뷯뷰뷱뷲뷳뷴뷵뷶뷷뷸뷹뷺뷻뷼뷽뷾뷿뺀뺁뺂뺃뺄뺅뺆뺇뺈뺉뺊뺋뺌뺍뺎뺏뺐뺑뺒뺓뺔뺕뺖뺗뺘뺙뺚뺛뺜뺝뺞뺟뺠뺡뺢뺣뺤뺥뺦뺧뺨뺩뺪뺫뺬뺭뺮뺯뺰뺱뺲뺳뺴뺵뺶뺷뺸뺹뺺뺻뺼뺽뺾뺿뻀뻁뻂뻃뻄뻅뻆뻇뻈뻉뻊뻋뻌뻍뻎뻏뻐뻑뻒뻓뻔뻕뻖뻗뻘뻙뻚뻛뻜뻝뻞뻟뻠뻡뻢뻣뻤뻥뻦뻧뻨뻩뻪뻫뻬뻭뻮뻯뻰뻱뻲뻳뻴뻵뻶뻷뻸뻹뻺뻻뻼뻽뻾뻿뾀뾁뾂뾃뾄뾅뾆뾇뾈뾉뾊뾋뾌뾍뾎뾏뾐뾑뾒뾓뾔뾕뾖뾗뾘뾙뾚뾛뾜뾝뾞뾟뾠뾡뾢뾣뾤뾥뾦뾧뾨뾩뾪뾫뾬뾭뾮뾯뾰뾱뾲뾳뾴뾵뾶뾷뾸뾹뾺뾻뾼뾽뾾뾿뿀뿁뿂뿃뿄뿅뿆뿇뿈뿉뿊뿋뿌뿍뿎뿏뿐뿑뿒뿓뿔뿕뿖뿗뿘뿙뿚뿛뿜뿝뿞뿟뿠뿡뿢뿣뿤뿥뿦뿧뿨뿩뿪뿫뿬뿭뿮뿯뿰뿱뿲뿳뿴뿵뿶뿷뿸뿹뿺뿻뿼뿽뿾뿿삀삁삂삃삄삅삆삇삈삉삊삋삌삍삎삏삐삑삒삓삔삕삖삗삘삙삚삛삜삝삞삟삠삡삢삣삤삥삦삧삨삩삪삫사삭삮삯산삱삲삳살삵삶삷삸삹삺삻삼삽삾삿샀상샂샃샄샅샆샇새색샊샋샌샍샎샏샐샑샒샓샔샕샖샗샘샙샚샛샜생샞샟샠샡샢샣샤샥샦샧샨샩샪샫샬샭샮샯샰샱샲샳샴샵샶샷샸샹샺샻샼샽샾샿솀솁솂솃솄솅솆솇솈솉솊솋소속솎솏손솑솒솓솔솕솖솗솘솙솚솛솜솝솞솟솠송솢솣솤솥솦솧솨솩솪솫솬솭솮솯솰솱솲솳솴솵솶솷솸솹솺솻솼솽솾솿쇀쇁쇂쇃쇄쇅쇆쇇쇈쇉쇊쇋쇌쇍쇎쇏쇐쇑쇒쇓쇔쇕쇖쇗쇘쇙쇚쇛쇜쇝쇞쇟쇠쇡쇢쇣쇤쇥쇦쇧쇨쇩쇪쇫쇬쇭쇮쇯쇰쇱쇲쇳쇴쇵쇶쇷쇸쇹쇺쇻쇼쇽쇾쇿슀슁슂슃슄슅슆슇슈슉슊슋슌슍슎슏슐슑슒슓슔슕슖슗슘슙슚슛슜슝슞슟슠슡슢슣스슥슦슧슨슩슪슫슬슭슮슯슰슱슲슳슴습슶슷슸승슺슻슼슽슾슿싀싁싂싃싄싅싆싇싈싉싊싋싌싍싎싏싐싑싒싓싔싕싖싗싘싙싚싛시식싞싟신싡싢싣실싥싦싧싨싩싪싫심십싮싯싰싱싲싳싴싵싶싷싸싹싺싻싼싽싾싿쎀쎁쎂쎃쎄쎅쎆쎇쎈쎉쎊쎋쎌쎍쎎쎏쎐쎑쎒쎓쎔쎕쎖쎗쎘쎙쎚쎛쎜쎝쎞쎟쎠쎡쎢쎣쎤쎥쎦쎧쎨쎩쎪쎫쎬쎭쎮쎯쎰쎱쎲쎳쎴쎵쎶쎷쎸쎹쎺쎻쎼쎽쎾쎿쏀쏁쏂쏃쏄쏅쏆쏇쏈쏉쏊쏋쏌쏍쏎쏏쏐쏑쏒쏓쏔쏕쏖쏗쏘쏙쏚쏛쏜쏝쏞쏟쏠쏡쏢쏣쏤쏥쏦쏧쏨쏩쏪쏫쏬쏭쏮쏯쏰쏱쏲쏳쏴쏵쏶쏷쏸쏹쏺쏻쏼쏽쏾쏿쒀쒁쒂쒃쒄쒅쒆쒇쒈쒉쒊쒋쒌쒍쒎쒏쒐쒑쒒쒓쒔쒕쒖쒗쒘쒙쒚쒛쒜쒝쒞쒟쒠쒡쒢쒣쒤쒥쒦쒧쒨쒩쒪쒫쒬쒭쒮쒯쒰쒱쒲쒳쒴쒵쒶쒷쒸쒹쒺쒻쒼쒽쒾쒿쓀쓁쓂쓃쓄쓅쓆쓇쓈쓉쓊쓋쓌쓍쓎쓏쓐쓑쓒쓓쓔쓕쓖쓗쓘쓙쓚쓛쓜쓝쓞쓟쓠쓡쓢쓣쓤쓥쓦쓧쓨쓩쓪쓫쓬쓭쓮쓯쓰쓱쓲쓳쓴쓵쓶쓷쓸쓹쓺쓻쓼쓽쓾쓿얀얁얂얃얄얅얆얇얈얉얊얋얌얍얎얏얐양얒얓얔얕얖얗얘얙얚얛얜얝얞얟얠얡얢얣얤얥얦얧얨얩얪얫얬얭얮얯얰얱얲얳어억얶얷언얹얺얻얼얽얾얿엀엁엂엃엄업없엇었엉엊엋엌엍엎엏에엑엒엓엔엕엖엗엘엙엚엛엜엝엞엟엠엡엢엣엤엥엦엧엨엩엪엫여역엮엯연엱엲엳열엵엶엷엸엹엺엻염엽엾엿욀욁욂욃욄욅욆욇욈욉욊욋욌욍욎욏욐욑욒욓요욕욖욗욘욙욚욛욜욝욞욟욠욡욢욣욤욥욦욧욨용욪욫욬욭욮욯우욱욲욳운욵욶욷울욹욺욻욼욽욾욿움웁웂웃웄웅웆웇웈웉웊웋워웍웎웏원웑웒웓월웕웖웗웘웙웚웛웜웝웞웟웠웡웢웣웤웥웦웧웨웩웪웫웬웭웮웯웰웱웲웳웴웵웶웷웸웹웺웻웼웽웾웿잀잁잂잃임입잆잇있잉잊잋잌잍잎잏자작잒잓잔잕잖잗잘잙잚잛잜잝잞잟잠잡잢잣잤장잦잧잨잩잪잫재잭잮잯잰잱잲잳잴잵잶잷잸잹잺잻잼잽잾잿쟀쟁쟂쟃쟄쟅쟆쟇쟈쟉쟊쟋쟌쟍쟎쟏쟐쟑쟒쟓쟔쟕쟖쟗쟘쟙쟚쟛쟜쟝쟞쟟쟠쟡쟢쟣쟤쟥쟦쟧쟨쟩쟪쟫쟬쟭쟮쟯쟰쟱쟲쟳쟴쟵쟶쟷쟸쟹쟺쟻쟼쟽쟾쟿좀좁좂좃좄종좆좇좈좉좊좋좌좍좎좏좐좑좒좓좔좕좖좗좘좙좚좛좜좝좞좟좠좡좢좣좤좥좦좧좨좩좪좫좬좭좮좯좰좱좲좳좴좵좶좷좸좹좺좻좼좽좾좿죀죁죂죃죄죅죆죇죈죉죊죋죌죍죎죏죐죑죒죓죔죕죖죗죘죙죚죛죜죝죞죟죠죡죢죣죤죥죦죧죨죩죪죫죬죭죮죯죰죱죲죳죴죵죶죷죸죹죺죻주죽죾죿즀즁즂즃즄즅즆즇즈즉즊즋즌즍즎즏즐즑즒즓즔즕즖즗즘즙즚즛즜증즞즟즠즡즢즣즤즥즦즧즨즩즪즫즬즭즮즯즰즱즲즳즴즵즶즷즸즹즺즻즼즽즾즿지직짂짃진짅짆짇질짉짊짋짌짍짎짏짐집짒짓짔징짖짗짘짙짚짛짜짝짞짟짠짡짢짣짤짥짦짧짨짩짪짫짬짭짮짯짰짱짲짳짴짵짶짷째짹짺짻짼짽짾짿쪀쪁쪂쪃쪄쪅쪆쪇쪈쪉쪊쪋쪌쪍쪎쪏쪐쪑쪒쪓쪔쪕쪖쪗쪘쪙쪚쪛쪜쪝쪞쪟쪠쪡쪢쪣쪤쪥쪦쪧쪨쪩쪪쪫쪬쪭쪮쪯쪰쪱쪲쪳쪴쪵쪶쪷쪸쪹쪺쪻쪼쪽쪾쪿쫀쫁쫂쫃쫄쫅쫆쫇쫈쫉쫊쫋쫌쫍쫎쫏쫐쫑쫒쫓쫔쫕쫖쫗쫘쫙쫚쫛쫜쫝쫞쫟쫠쫡쫢쫣쫤쫥쫦쫧쫨쫩쫪쫫쫬쫭쫮쫯쫰쫱쫲쫳쫴쫵쫶쫷쫸쫹쫺쫻쫼쫽쫾쫿쮀쮁쮂쮃쮄쮅쮆쮇쮈쮉쮊쮋쮌쮍쮎쮏쮐쮑쮒쮓쮔쮕쮖쮗쮘쮙쮚쮛쮜쮝쮞쮟쮠쮡쮢쮣쮤쮥쮦쮧쮨쮩쮪쮫쮬쮭쮮쮯쮰쮱쮲쮳쮴쮵쮶쮷쮸쮹쮺쮻쮼쮽쮾쮿쯀쯁쯂쯃쯄쯅쯆쯇쯈쯉쯊쯋쯌쯍쯎쯏쯐쯑쯒쯓쯔쯕쯖쯗쯘쯙쯚쯛쯜쯝쯞쯟쯠쯡쯢쯣쯤쯥쯦쯧쯨쯩쯪쯫쯬쯭쯮쯯쯰쯱쯲쯳쯴쯵쯶쯷쯸쯹쯺쯻쯼쯽쯾쯿첀첁첂첃첄첅첆첇첈첉첊첋첌첍첎첏첐첑첒첓첔첕첖첗처척첚첛천첝첞첟철첡첢첣첤첥첦첧첨첩첪첫첬청첮첯첰첱첲첳체첵첶첷첸첹첺첻첼첽첾첿쳀쳁쳂쳃쳄쳅쳆쳇쳈쳉쳊쳋쳌쳍쳎쳏쳐쳑쳒쳓쳔쳕쳖쳗쳘쳙쳚쳛쳜쳝쳞쳟쳠쳡쳢쳣쳤쳥쳦쳧쳨쳩쳪쳫쳬쳭쳮쳯쳰쳱쳲쳳쳴쳵쳶쳷쳸쳹쳺쳻쳼쳽쳾쳿춀춁춂춃춄춅춆춇춈춉춊춋춌춍춎춏춐춑춒춓추축춖춗춘춙춚춛출춝춞춟춠춡춢춣춤춥춦춧춨충춪춫춬춭춮춯춰춱춲춳춴춵춶춷춸춹춺춻춼춽춾춿췀췁췂췃췄췅췆췇췈췉췊췋췌췍췎췏췐췑췒췓췔췕췖췗췘췙췚췛췜췝췞췟췠췡췢췣췤췥췦췧취췩췪췫췬췭췮췯췰췱췲췳췴췵췶췷췸췹췺췻췼췽췾췿캀캁캂캃캄캅캆캇캈캉캊캋캌캍캎캏캐캑캒캓캔캕캖캗캘캙캚캛캜캝캞캟캠캡캢캣캤캥캦캧캨캩캪캫캬캭캮캯캰캱캲캳캴캵캶캷캸캹캺캻캼캽캾캿컀컁컂컃컄컅컆컇컈컉컊컋컌컍컎컏컐컑컒컓컔컕컖컗컘컙컚컛컜컝컞컟컠컡컢컣커컥컦컧컨컩컪컫컬컭컮컯컰컱컲컳컴컵컶컷컸컹컺컻컼컽컾컿쾀쾁쾂쾃쾄쾅쾆쾇쾈쾉쾊쾋쾌쾍쾎쾏쾐쾑쾒쾓쾔쾕쾖쾗쾘쾙쾚쾛쾜쾝쾞쾟쾠쾡쾢쾣쾤쾥쾦쾧쾨쾩쾪쾫쾬쾭쾮쾯쾰쾱쾲쾳쾴쾵쾶쾷쾸쾹쾺쾻쾼쾽쾾쾿쿀쿁쿂쿃쿄쿅쿆쿇쿈쿉쿊쿋쿌쿍쿎쿏쿐쿑쿒쿓쿔쿕쿖쿗쿘쿙쿚쿛쿜쿝쿞쿟쿠쿡쿢쿣쿤쿥쿦쿧쿨쿩쿪쿫쿬쿭쿮쿯쿰쿱쿲쿳쿴쿵쿶쿷쿸쿹쿺쿻쿼쿽쿾쿿킀킁킂킃킄킅킆킇킈킉킊킋킌킍킎킏킐킑킒킓킔킕킖킗킘킙킚킛킜킝킞킟킠킡킢킣키킥킦킧킨킩킪킫킬킭킮킯킰킱킲킳킴킵킶킷킸킹킺킻킼킽킾킿타탁탂탃탄탅탆탇탈탉탊탋탌탍탎탏탐탑탒탓탔탕탖탗탘탙탚탛태택탞탟탠탡탢탣탤탥탦탧탨탩탪탫탬탭탮탯탰탱탲탳탴탵탶탷탸탹탺탻탼탽탾탿톀톁톂톃톄톅톆톇톈톉톊톋톌톍톎톏톐톑톒톓톔톕톖톗톘톙톚톛톜톝톞톟토톡톢톣톤톥톦톧톨톩톪톫톬톭톮톯톰톱톲톳톴통톶톷톸톹톺톻톼톽톾톿퇀퇁퇂퇃퇄퇅퇆퇇퇈퇉퇊퇋퇌퇍퇎퇏퇐퇑퇒퇓퇔퇕퇖퇗퇘퇙퇚퇛퇜퇝퇞퇟퇠퇡퇢퇣퇤퇥퇦퇧퇨퇩퇪퇫퇬퇭퇮퇯퇰퇱퇲퇳퇴퇵퇶퇷퇸퇹퇺퇻퇼퇽퇾퇿튀튁튂튃튄튅튆튇튈튉튊튋튌튍튎튏튐튑튒튓튔튕튖튗튘튙튚튛튜튝튞튟튠튡튢튣튤튥튦튧튨튩튪튫튬튭튮튯튰튱튲튳튴튵튶튷트특튺튻튼튽튾튿틀틁틂틃틄틅틆틇틈틉틊틋틌틍틎틏틐틑틒틓틔틕틖틗틘틙틚틛틜틝틞틟틠틡틢틣틤틥틦틧틨틩틪틫틬틭틮틯티틱틲틳틴틵틶틷틸틹틺틻틼틽틾틿펀펁펂펃펄펅펆펇펈펉펊펋펌펍펎펏펐펑펒펓펔펕펖펗페펙펚펛펜펝펞펟펠펡펢펣펤펥펦펧펨펩펪펫펬펭펮펯펰펱펲펳펴펵펶펷편펹펺펻펼펽펾펿폀폁폂폃폄폅폆폇폈평폊폋폌폍폎폏폐폑폒폓폔폕폖폗폘폙폚폛폜폝폞폟폠폡폢폣폤폥폦폧폨폩폪폫포폭폮폯폰폱폲폳폴폵폶폷폸폹폺폻폼폽폾폿풀풁풂풃풄풅풆풇품풉풊풋풌풍풎풏풐풑풒풓풔풕풖풗풘풙풚풛풜풝풞풟풠풡풢풣풤풥풦풧풨풩풪풫풬풭풮풯풰풱풲풳풴풵풶풷풸풹풺풻풼풽풾풿퓀퓁퓂퓃퓄퓅퓆퓇퓈퓉퓊퓋퓌퓍퓎퓏퓐퓑퓒퓓퓔퓕퓖퓗퓘퓙퓚퓛퓜퓝퓞퓟퓠퓡퓢퓣퓤퓥퓦퓧퓨퓩퓪퓫퓬퓭퓮퓯퓰퓱퓲퓳퓴퓵퓶퓷퓸퓹퓺퓻퓼퓽퓾퓿햀햁햂햃햄햅햆햇했행햊햋햌햍햎햏햐햑햒햓햔햕햖햗햘햙햚햛햜햝햞햟햠햡햢햣햤향햦햧햨햩햪햫햬햭햮햯햰햱햲햳햴햵햶햷햸햹햺햻햼햽햾햿헀헁헂헃헄헅헆헇허헉헊헋헌헍헎헏헐헑헒헓헔헕헖헗험헙헚헛헜헝헞헟헠헡헢헣헤헥헦헧헨헩헪헫헬헭헮헯헰헱헲헳헴헵헶헷헸헹헺헻헼헽헾헿횀횁횂횃횄횅횆횇횈횉횊횋회획횎횏횐횑횒횓횔횕횖횗횘횙횚횛횜횝횞횟횠횡횢횣횤횥횦횧효횩횪횫횬횭횮횯횰횱횲횳횴횵횶횷횸횹횺횻횼횽횾횿훀훁훂훃후훅훆훇훈훉훊훋훌훍훎훏훐훑훒훓훔훕훖훗훘훙훚훛훜훝훞훟훠훡훢훣훤훥훦훧훨훩훪훫훬훭훮훯훰훱훲훳훴훵훶훷훸훹훺훻훼훽훾훿힀힁힂힃힄힅힆힇히힉힊힋힌힍힎힏힐힑힒힓힔힕힖힗힘힙힚힛힜힝힞힟힠힡힢힣힤힥힦힧힨힩힪힫힬힭힮힯ힰힱힲힳힴힵힶힷힸힹힺힻힼힽힾힿퟀퟁퟂퟃퟄퟅퟆ퟇퟈퟉퟊ퟋퟌퟍퟎퟏퟐퟑퟒퟓퟔퟕퟖퟗퟘퟙퟚퟛퟜퟝퟞퟟퟠퟡퟢퟣퟤퟥퟦퟧퟨퟩퟪퟫퟬퟭퟮퟯퟰퟱퟲퟳퟴퟵퟶퟷퟸퟹퟺퟻ퟼퟽퟾퟿呂女廬旅濾礪閭驪麗黎力曆歷轢年憐戀撚漣煉璉秊練聯輦蓮連鍊列劣咽烈裂說廉念捻殮簾獵令囹寧嶺怜玲瑩羚聆鈴零靈領例禮醴隸惡了僚寮尿料樂燎療蓼遼龍暈阮劉杻柳流溜琉留硫紐類六戮陸倫崙淪輪律慄栗率隆利吏履易李梨泥理痢罹裏裡里離匿溺吝燐璘藺隣鱗麟林淋臨立笠粒狀炙識什茶刺婢嬨廒廙彩徭惘慎愈憎慠懲戴揄搜摒敖晴朗望杖歹殺流滛滋漢瀞煮瞧爵犯猪瑱甆画瘝瘟益盛直睊着磌窱節类絛練缾者荒華蝹襁覆視調諸請謁諾諭謹變贈輸遲醙鉶陼難靖韛響頋頻鬒龜𢡊𢡄𣏕㮝䀘䀹𥉉𥳐𧻓齃龎﫚﫛﫜﫝﫞﫟﫠﫡﫢﫣﫤﫥﫦﫧﫨﫩﫪﫫﫬﫭﫮﫯﫰﫱﫲﫳﫴﫵﫶﫷﫸﫹﫺﫻﫼﫽﫾﫿ﮀﮁﮂﮃﮄﮅﮆﮇﮈﮉﮊﮋﮌﮍﮎﮏﮐﮑﮒﮓﮔﮕﮖﮗﮘﮙﮚﮛﮜﮝﮞﮟﮠﮡﮢﮣﮤﮥﮦﮧﮨﮩﮪﮫﮬﮭﮮﮯﮰﮱ﮲﮳﮴﮵﮶﮷﮸﮹﮺﮻﮼﮽﮾﮿﯀﯁﯂﯃﯄﯅﯆﯇﯈﯉﯊﯋﯌﯍﯎﯏﯐﯑﯒ﯓﯔﯕﯖﯗﯘﯙﯚﯛﯜﯝﯞﯟﯠﯡﯢﯣﯤﯥﯦﯧﯨﯩﯪﯫﯬﯭﯮﯯﯰﯱﯲﯳﯴﯵﯶﯷﯸﯹﯺﯻﯼﯽﯾﯿﲀﲁﲂﲃﲄﲅﲆﲇﲈﲉﲊﲋﲌﲍﲎﲏﲐﲑﲒﲓﲔﲕﲖﲗﲘﲙﲚﲛﲜﲝﲞﲟﲠﲡﲢﲣﲤﲥﲦﲧﲨﲩﲪﲫﲬﲭﲮﲯﲰﲱﲲﲳﲴﲵﲶﲷﲸﲹﲺﲻﲼﲽﲾﲿﳀﳁﳂﳃﳄﳅﳆﳇﳈﳉﳊﳋﳌﳍﳎﳏﳐﳑﳒﳓﳔﳕﳖﳗﳘﳙﳚﳛﳜﳝﳞﳟﳠﳡﳢﳣﳤﳥﳦﳧﳨﳩﳪﳫﳬﳭﳮﳯﳰﳱﳲﳳﳴﳵﳶﳷﳸﳹﳺﳻﳼﳽﳾﳿﶀﶁﶂﶃﶄﶅﶆﶇﶈﶉﶊﶋﶌﶍﶎﶏ﶐﶑ﶒﶓﶔﶕﶖﶗﶘﶙﶚﶛﶜﶝﶞﶟﶠﶡﶢﶣﶤﶥﶦﶧﶨﶩﶪﶫﶬﶭﶮﶯﶰﶱﶲﶳﶴﶵﶶﶷﶸﶹﶺﶻﶼﶽﶾﶿﷀﷁﷂﷃﷄﷅﷆﷇ﷈﷉﷊﷋﷌﷍﷎﷏﷐﷑﷒﷓﷔﷕﷖﷗﷘﷙﷚﷛﷜﷝﷞﷟﷠﷡﷢﷣﷤﷥﷦﷧﷨﷩﷪﷫﷬﷭﷮﷯ﷰﷱﷲﷳﷴﷵﷶﷷﷸﷹﷺﷻ﷼﷽﷾﷿ﺀﺁﺂﺃﺄﺅﺆﺇﺈﺉﺊﺋﺌﺍﺎﺏﺐﺑﺒﺓﺔﺕﺖﺗﺘﺙﺚﺛﺜﺝﺞﺟﺠﺡﺢﺣﺤﺥﺦﺧﺨﺩﺪﺫﺬﺭﺮﺯﺰﺱﺲﺳﺴﺵﺶﺷﺸﺹﺺﺻﺼﺽﺾﺿﻀﻁﻂﻃﻄﻅﻆﻇﻈﻉﻊﻋﻌﻍﻎﻏﻐﻑﻒﻓﻔﻕﻖﻗﻘﻙﻚﻛﻜﻝﻞﻟﻠﻡﻢﻣﻤﻥﻦﻧﻨﻩﻪﻫﻬﻭﻮﻯﻰﻱﻲﻳﻴﻵﻶﻷﻸﻹﻺﻻﻼ﻽﻾﻿ﾀﾁﾂﾃﾄﾅﾆﾇﾈﾉﾊﾋﾌﾍﾎﾏﾐﾑﾒﾓﾔﾕﾖﾗﾘﾙﾚﾛﾜﾝﾞﾟﾠﾡﾢﾣﾤﾥﾦﾧﾨﾩﾪﾫﾬﾭﾮﾯﾰﾱﾲﾳﾴﾵﾶﾷﾸﾹﾺﾻﾼﾽﾾ﾿￀￁ￂￃￄￅￆￇ￈￉ￊￋￌￍￎￏ￐￑ￒￓￔￕￖￗ￘￙ￚￛￜ￝￞￟￠￡￢￣￤￥￦￧￨￩￪￫￬￭￮￯￰￱￲￳￴￵￶￷￸￹￺￻￼�￾￿"

SurrogatePairs == "𰂀𰒁𰢂𰲃𱂄𱒅𱢆𱲇𲂈𲒉𲢊𲲋𳂌𳒍𳢎𳲏𴂐𴒑𴢒𴲓𵂔𵒕𵢖𵲗𶂘𶒙𶢚𶲛𷂜𷒝𷢞𷲟𸂠𸒡𸢢𸲣𹂤𹒥𹢦𹲧𺂨𺒩𺢪𺲫𻂬𻒭𻢮𻲯𼂰𼒱𼢲𼲳𽂴𽒵𽢶𽲷𾂸𾒹𾢺𾲻𿂼𿒽𿢾𿲿񀃀񀓁񀣂񀳃񁃄񁓅񁣆񁳇񂃈񂓉񂣊񂳋񃃌񃓍񃣎񃳏񄃐񄓑񄣒񄳓񅃔񅓕񅣖񅳗񆃘񆓙񆣚񆳛񇃜񇓝񇣞񇳟񈃠񈓡񈣢񈳣񉃤񉓥񉣦񉳧񊃨񊓩񊣪񊳫񋃬񋓭񋣮񋳯񌃰񌓱񌣲񌳳񍃴񍓵񍣶񍳷񎃸񎓹񎣺񎳻񏃼񏓽񏣾񏳿񰆀񰖁񰦂񰶃񱆄񱖅񱦆񱶇񲆈񲖉񲦊񲶋񳆌񳖍񳦎񳶏񴆐񴖑񴦒񴶓񵆔񵖕񵦖񵶗񶆘񶖙񶦚񶶛񷆜񷖝񷦞񷶟񸆠񸖡񸦢񸶣񹆤񹖥񹦦񹶧񺆨񺖩񺦪񺶫񻆬񻖭񻦮񻶯񼆰񼖱񼦲񼶳񽆴񽖵񽦶񽶷񾆸񾖹񾦺񾶻񿆼񿖽񿦾񿶿򀇀򀗁򀧂򀷃򁇄򁗅򁧆򁷇򂇈򂗉򂧊򂷋򃇌򃗍򃧎򃷏򄇐򄗑򄧒򄷓򅇔򅗕򅧖򅷗򆇘򆗙򆧚򆷛򇇜򇗝򇧞򇷟򈇠򈗡򈧢򈷣򉇤򉗥򉧦򉷧򊇨򊗩򊧪򊷫򋇬򋗭򋧮򋷯򌇰򌗱򌧲򌷳򍇴򍗵򍧶򍷷򎇸򎗹򎧺򎷻򏇼򏗽򏧾򏷿򰊀򰚁򰪂򰺃򱊄򱚅򱪆򱺇򲊈򲚉򲪊򲺋򳊌򳚍򳪎򳺏򴊐򴚑򴪒򴺓򵊔򵚕򵪖򵺗򶊘򶚙򶪚򶺛򷊜򷚝򷪞򷺟򸊠򸚡򸪢򸺣򹊤򹚥򹪦򹺧򺊨򺚩򺪪򺺫򻊬򻚭򻪮򻺯򼊰򼚱򼪲򼺳򽊴򽚵򽪶򽺷򾊸򾚹򾪺򾺻򿊼򿚽򿪾򿺿󀋀󀛁󀫂󀻃󁋄󁛅󁫆󁻇󂋈󂛉󂫊󂻋󃋌󃛍󃫎󃻏󄋐󄛑󄫒󄻓󅋔󅛕󅫖󅻗󆋘󆛙󆫚󆻛󇋜󇛝󇫞󇻟󈋠󈛡󈫢󈻣󉋤󉛥󉫦󉻧󊋨󊛩󊫪󊻫󋋬󋛭󋫮󋻯󌋰󌛱󌫲󌻳󍋴󍛵󍫶󍻷󎋸󎛹󎫺󎻻󏋼󏛽󏫾󏻿󰎀󰞁󰮂󰾃󱎄󱞅󱮆󱾇󲎈󲞉󲮊󲾋󳎌󳞍󳮎󳾏󴎐󴞑󴮒󴾓󵎔󵞕󵮖󵾗󶎘󶞙󶮚󶾛󷎜󷞝󷮞󷾟󸎠󸞡󸮢󸾣󹎤󹞥󹮦󹾧󺎨󺞩󺮪󺾫󻎬󻞭󻮮󻾯󼎰󼞱󼮲󼾳󽎴󽞵󽮶󽾷󾎸󾞹󾮺󾾻󿎼󿞽󿮾󿾿􀏀􀟁􀯂􀿃􁏄􁟅􁯆􁿇􂏈􂟉􂯊􂿋􃏌􃟍􃯎􃿏􄏐􄟑􄯒􄿓􅏔􅟕􅯖􅿗􆏘􆟙􆯚􆿛􇏜􇟝􇯞􇿟􈏠􈟡􈯢􈿣􉏤􉟥􉯦􉿧􊏨􊟩􊯪􊿫􋏬􋟭􋯮􋿯􌏰􌟱􌯲􌿳􍏴􍟵􍯶􍿷􎏸􎟹􎯺􎿻􏏼􏟽􏯾􏿿"

UnitTable == Latin1Low \o Latin1High \o BmpHigh \o SurrogatePairs

(* the code unit of the i-th character of UnitTable, and 0 for i = 0 *)
UnitCodeAt(i) ==
    IF i <= 95 THEN i
    ELSE IF i <= 254 THEN i + 1
    ELSE IF i <= 31870
         THEN 256 * (IF (i - 255) \div 128 < 215 THEN (i - 255) \div 128 + 1
                     ELSE (i - 255) \div 128 + 9)
              + 128 + ((i - 255) % 128)
    ELSE (IF (i - 31871) % 2 = 0 THEN 55296 ELSE 56320)
         + 256 * (((i - 31871) \div 2) \div 128) + 128 + (((i - 31871) \div 2) % 128)

(* for each of the 16 bits of a position in UnitTable, the characters at   *)
(* the positions that have it set                                          *)
PositionBits ==
    [k \in 0..15 |->
        {CharAt(UnitTable, i) : i \in {j \in 1..Len(UnitTable) : (j \div (2 ^ k)) % 2 = 1}}]

RECURSIVE PositionFromBit(_, _)
PositionFromBit(c, k) ==
    IF k > 15 THEN 0
    ELSE (IF c \in PositionBits[k] THEN 2 ^ k ELSE 0) + PositionFromBit(c, k + 1)

(* c.charCodeAt(0); U+0000 is at no position of the table *)
CharCode(c) == UnitCodeAt(PositionFromBit(c, 0))

IsDigit(c) == c \in {"0", "1", "2", "3", "4", "5", "6", "7", "8", "9"}

DigitValue(c) ==
    CASE c = "0" -> 0 [] c = "1" -> 1 [] c = "2" -> 2 [] c = "3" -> 3 [] c = "4" -> 4
      [] c = "5" -> 5 [] c = "6" -> 6 [] c = "7" -> 7 [] c = "8" -> 8 [] c = "9" -> 9

(* the UTF-16 code units of a string *)
Units(s) == [i \in 1..Len(s) |-> CharCode(CharAt(s, i))]

(* A string the program computes from its inputs is kept as the sequence   *)
(* of its UTF-16 code units, which holds every string; a string it is      *)
(* given is written as a string of this module.                            *)
Text(u) == [t |-> "string", u |-> u]

(* the code units of a string value of either form *)
UnitsOf(v) == IF "u" \in DOMAIN v THEN v.u ELSE Units(v.s)

(* The case data of String.prototype.toLowerCase (ECMA-262 22.1.3.28: the  *)
(* Unicode default case conversion, here of Unicode 17). A mapping of one  *)
(* code point to one code point is a range <<first, last, step, offset>>:  *)
(* first, first + step, ..., last map to themselves plus offset.           *)
LowerRanges ==
    <<
       <<65, 90, 1, 32>>, <<192, 214, 1, 32>>, <<216, 222, 1, 32>>, <<256, 302, 2, 1>>,
       <<306, 310, 2, 1>>, <<313, 327, 2, 1>>, <<330, 374, 2, 1>>, <<376, 376, 1, -121>>,
       <<377, 381, 2, 1>>, <<385, 385, 1, 210>>, <<386, 388, 2, 1>>, <<390, 390, 1, 206>>,
       <<391, 391, 1, 1>>, <<393, 394, 1, 205>>, <<395, 395, 1, 1>>, <<398, 398, 1, 79>>,
       <<399, 399, 1, 202>>, <<400, 400, 1, 203>>, <<401, 401, 1, 1>>, <<403, 403, 1, 205>>,
       <<404, 404, 1, 207>>, <<406, 406, 1, 211>>, <<407, 407, 1, 209>>, <<408, 408, 1, 1>>,
       <<412, 412, 1, 211>>, <<413, 413, 1, 213>>, <<415, 415, 1, 214>>, <<416, 420, 2, 1>>,
       <<422, 422, 1, 218>>, <<423, 423, 1, 1>>, <<425, 425, 1, 218>>, <<428, 428, 1, 1>>,
       <<430, 430, 1, 218>>, <<431, 431, 1, 1>>, <<433, 434, 1, 217>>, <<435, 437, 2, 1>>,
       <<439, 439, 1, 219>>, <<440, 440, 1, 1>>, <<444, 444, 1, 1>>, <<452, 452, 1, 2>>,
       <<453, 453, 1, 1>>, <<455, 455, 1, 2>>, <<456, 456, 1, 1>>, <<458, 458, 1, 2>>,
       <<459, 475, 2, 1>>, <<478, 494, 2, 1>>, <<497, 497, 1, 2>>, <<498, 500, 2, 1>>,
       <<502, 502, 1, -97>>, <<503, 503, 1, -56>>, <<504, 542, 2, 1>>, <<544, 544, 1, -130>>,
       <<546, 562, 2, 1>>, <<570, 570, 1, 10795>>, <<571, 571, 1, 1>>, <<573, 573, 1, -163>>,
       <<574, 574, 1, 10792>>, <<577, 577, 1, 1>>, <<579, 579, 1, -195>>, <<580, 580, 1, 69>>,
       <<581, 581, 1, 71>>, <<582, 590, 2, 1>>, <<880, 882, 2, 1>>, <<886, 886, 1, 1>>,
       <<895, 895, 1, 116>>, <<902, 902, 1, 38>>, <<904, 906, 1, 37>>, <<908, 908, 1, 64>>,
       <<910, 911, 1, 63>>, <<913, 929, 1, 32>>, <<931, 939, 1, 32>>, <<975, 975, 1, 8>>,
       <<984, 1006, 2, 1>>, <<1012, 1012, 1, -60>>, <<1015, 1015, 1, 1>>, <<1017, 1017, 1, -7>>,
       <<1018, 1018, 1, 1>>, <<1021, 1023, 1, -130>>, <<1024, 1039, 1, 80>>, <<1040, 1071, 1, 32>>,
       <<1120, 1152, 2, 1>>, <<1162, 1214, 2, 1>>, <<1216, 1216, 1, 15>>, <<1217, 1229, 2, 1>>,
       <<1232, 1326, 2, 1>>, <<1329, 1366, 1, 48>>, <<4256, 4293, 1, 7264>>, <<4295, 4295, 1, 7264>>,
       <<4301, 4301, 1, 7264>>, <<5024, 5103, 1, 38864>>, <<5104, 5109, 1, 8>>, <<7305, 7305, 1, 1>>,
       <<7312, 7354, 1, -3008>>, <<7357, 7359, 1, -3008>>, <<7680, 7828, 2, 1>>, <<7838, 7838, 1, -7615>>,
       <<7840, 7934, 2, 1>>, <<7944, 7951, 1, -8>>, <<7960, 7965, 1, -8>>, <<7976, 7983, 1, -8>>,
       <<7992, 7999, 1, -8>>, <<8008, 8013, 1, -8>>, <<8025, 8031, 2, -8>>, <<8040, 8047, 1, -8>>,
       <<8072, 8079, 1, -8>>, <<8088, 8095, 1, -8>>, <<8104, 8111, 1, -8>>, <<8120, 8121, 1, -8>>,
       <<8122, 8123, 1, -74>>, <<8124, 8124, 1, -9>>, <<8136, 8139, 1, -86>>, <<8140, 8140, 1, -9>>,
       <<8152, 8153, 1, -8>>, <<8154, 8155, 1, -100>>, <<8168, 8169, 1, -8>>, <<8170, 8171, 1, -112>>,
       <<8172, 8172, 1, -7>>, <<8184, 8185, 1, -128>>, <<8186, 8187, 1, -126>>, <<8188, 8188, 1, -9>>,
       <<8486, 8486, 1, -7517>>, <<8490, 8490, 1, -8383>>, <<8491, 8491, 1, -8262>>, <<8498, 8498, 1, 28>>,
       <<8544, 8559, 1, 16>>, <<8579, 8579, 1, 1>>, <<9398, 9423, 1, 26>>, <<11264, 11311, 1, 48>>,
       <<11360, 11360, 1, 1>>, <<11362, 11362, 1, -10743>>, <<11363, 11363, 1, -3814>>, <<11364, 11364, 1, -10727>>,
       <<11367, 11371, 2, 1>>, <<11373, 11373, 1, -10780>>, <<11374, 11374, 1, -10749>>, <<11375, 11375, 1, -10783>>,
       <<11376, 11376, 1, -10782>>, <<11378, 11378, 1, 1>>, <<11381, 11381, 1, 1>>, <<11390, 11391, 1, -10815>>,
       <<11392, 11490, 2, 1>>, <<11499, 11501, 2, 1>>, <<11506, 11506, 1, 1>>, <<42560, 42604, 2, 1>>,
       <<42624, 42650, 2, 1>>, <<42786, 42798, 2, 1>>, <<42802, 42862, 2, 1>>, <<42873, 42875, 2, 1>>,
       <<42877, 42877, 1, -35332>>, <<42878, 42886, 2, 1>>, <<42891, 42891, 1, 1>>, <<42893, 42893, 1, -42280>>,
       <<42896, 42898, 2, 1>>, <<42902, 42920, 2, 1>>, <<42922, 42922, 1, -42308>>, <<42923, 42923, 1, -42319>>,
       <<42924, 42924, 1, -42315>>, <<42925, 42925, 1, -42305>>, <<42926, 42926, 1, -42308>>, <<42928, 42928, 1, -42258>>,
       <<42929, 42929, 1, -42282>>, <<42930, 42930, 1, -42261>>, <<42931, 42931, 1, 928>>, <<42932, 42946, 2, 1>>,
       <<42948, 42948, 1, -48>>, <<42949, 42949, 1, -42307>>, <<42950, 42950, 1, -35384>>, <<42951, 42953, 2, 1>>,
       <<42955, 42955, 1, -42343>>, <<42956, 42970, 2, 1>>, <<42972, 42972, 1, -42561>>, <<42997, 42997, 1, 1>>,
       <<65313, 65338, 1, 32>>, <<66560, 66599, 1, 40>>, <<66736, 66771, 1, 40>>, <<66928, 66938, 1, 39>>,
       <<66940, 66954, 1, 39>>, <<66956, 66962, 1, 39>>, <<66964, 66965, 1, 39>>, <<68736, 68786, 1, 64>>,
       <<68944, 68965, 1, 32>>, <<71840, 71871, 1, 32>>, <<93760, 93791, 1, 32>>, <<93856, 93880, 1, 27>>,
       <<125184, 125217, 1, 34>> >>

(* the code points that are Cased and not Case_Ignorable, and those that   *)
(* are Case_Ignorable, as ranges <<first, last>>                           *)
CasedRanges ==
    <<
       <<65, 90>>, <<97, 122>>, <<170, 170>>, <<181, 181>>, <<186, 186>>,
       <<192, 214>>, <<216, 246>>, <<248, 442>>, <<444, 447>>, <<452, 659>>,
       <<662, 687>>, <<880, 883>>, <<886, 887>>, <<891, 893>>, <<895, 895>>,
       <<902, 902>>, <<904, 906>>, <<908, 908>>, <<910, 929>>, <<931, 1013>>,
       <<1015, 1153>>, <<1162, 1327>>, <<1329, 1366>>, <<1376, 1416>>, <<4256, 4293>>,
       <<4295, 4295>>, <<4301, 4301>>, <<4304, 4346>>, <<4349, 4351>>, <<5024, 5109>>,
       <<5112, 5117>>, <<7296, 7306>>, <<7312, 7354>>, <<7357, 7359>>, <<7424, 7467>>,
       <<7531, 7543>>, <<7545, 7578>>, <<7680, 7957>>, <<7960, 7965>>, <<7968, 8005>>,
       <<8008, 8013>>, <<8016, 8023>>, <<8025, 8025>>, <<8027, 8027>>, <<8029, 8029>>,
       <<8031, 8061>>, <<8064, 8116>>, <<8118, 8124>>, <<8126, 8126>>, <<8130, 8132>>,
       <<8134, 8140>>, <<8144, 8147>>, <<8150, 8155>>, <<8160, 8172>>, <<8178, 8180>>,
       <<8182, 8188>>, <<8450, 8450>>, <<8455, 8455>>, <<8458, 8467>>, <<8469, 8469>>,
       <<8473, 8477>>, <<8484, 8484>>, <<8486, 8486>>, <<8488, 8488>>, <<8490, 8493>>,
       <<8495, 8500>>, <<8505, 8505>>, <<8508, 8511>>, <<8517, 8521>>, <<8526, 8526>>,
       <<8544, 8575>>, <<8579, 8580>>, <<9398, 9449>>, <<11264, 11387>>, <<11390, 11492>>,
       <<11499, 11502>>, <<11506, 11507>>, <<11520, 11557>>, <<11559, 11559>>, <<11565, 11565>>,
       <<42560, 42605>>, <<42624, 42651>>, <<42786, 42863>>, <<42865, 42887>>, <<42891, 42894>>,
       <<42896, 42972>>, <<42997, 42998>>, <<43002, 43002>>, <<43824, 43866>>, <<43872, 43880>>,
       <<43888, 43967>>, <<64256, 64262>>, <<64275, 64279>>, <<65313, 65338>>, <<65345, 65370>>,
       <<66560, 66639>>, <<66736, 66771>>, <<66776, 66811>>, <<66928, 66938>>, <<66940, 66954>>,
       <<66956, 66962>>, <<66964, 66965>>, <<66967, 66977>>, <<66979, 66993>>, <<66995, 67001>>,
       <<67003, 67004>>, <<68736, 68786>>, <<68800, 68850>>, <<68944, 68965>>, <<68976, 68997>>,
       <<71840, 71903>>, <<93760, 93823>>, <<93856, 93880>>, <<93883, 93907>>, <<119808, 119892>>,
       <<119894, 119964>>, <<119966, 119967>>, <<119970, 119970>>, <<119973, 119974>>, <<119977, 119980>>,
       <<119982, 119993>>, <<119995, 119995>>, <<119997, 120003>>, <<120005, 120069>>, <<120071, 120074>>,
       <<120077, 120084>>, <<120086, 120092>>, <<120094, 120121>>, <<120123, 120126>>, <<120128, 120132>>,
       <<120134, 120134>>, <<120138, 120144>>, <<120146, 120485>>, <<120488, 120512>>, <<120514, 120538>>,
       <<120540, 120570>>, <<120572, 120596>>, <<120598, 120628>>, <<120630, 120654>>, <<120656, 120686>>,
       <<120688, 120712>>, <<120714, 120744>>, <<120746, 120770>>, <<120772, 120779>>, <<122624, 122633>>,
       <<122635, 122654>>, <<122661, 122666>>, <<125184, 125251>>, <<127280, 127305>>, <<127312, 127337>>,
       <<127344, 127369>> >>

CaseIgnorableRanges ==
    <<
       <<39, 39>>, <<46, 46>>, <<58, 58>>, <<94, 94>>, <<96, 96>>,
       <<168, 168>>, <<173, 173>>, <<175, 175>>, <<180, 180>>, <<183, 184>>,
       <<688, 879>>, <<884, 885>>, <<890, 890>>, <<900, 901>>, <<903, 903>>,
       <<1155, 1161>>, <<1369, 1369>>, <<1375, 1375>>, <<1425, 1469>>, <<1471, 1471>>,
       <<1473, 1474>>, <<1476, 1477>>, <<1479, 1479>>, <<1524, 1524>>, <<1536, 1541>>,
       <<1552, 1562>>, <<1564, 1564>>, <<1600, 1600>>, <<1611, 1631>>, <<1648, 1648>>,
       <<1750, 1757>>, <<1759, 1768>>, <<1770, 1773>>, <<1807, 1807>>, <<1809, 1809>>,
       <<1840, 1866>>, <<1958, 1968>>, <<2027, 2037>>, <<2042, 2042>>, <<2045, 2045>>,
       <<2070, 2093>>, <<2137, 2139>>, <<2184, 2184>>, <<2192, 2193>>, <<2199, 2207>>,
       <<2249, 2306>>, <<2362, 2362>>, <<2364, 2364>>, <<2369, 2376>>, <<2381, 2381>>,
       <<2385, 2391>>, <<2402, 2403>>, <<2417, 2417>>, <<2433, 2433>>, <<2492, 2492>>,
       <<2497, 2500>>, <<2509, 2509>>, <<2530, 2531>>, <<2558, 2558>>, <<2561, 2562>>,
       <<2620, 2620>>, <<2625, 2626>>, <<2631, 2632>>, <<2635, 2637>>, <<2641, 2641>>,
       <<2672, 2673>>, <<2677, 2677>>, <<2689, 2690>>, <<2748, 2748>>, <<2753, 2757>>,
       <<2759, 2760>>, <<2765, 2765>>, <<2786, 2787>>, <<2810, 2815>>, <<2817, 2817>>,
       <<2876, 2876>>, <<2879, 2879>>, <<2881, 2884>>, <<2893, 2893>>, <<2901, 2902>>,
       <<2914, 2915>>, <<2946, 2946>>, <<3008, 3008>>, <<3021, 3021>>, <<3072, 3072>>,
       <<3076, 3076>>, <<3132, 3132>>, <<3134, 3136>>, <<3142, 3144>>, <<3146, 3149>>,
       <<3157, 3158>>, <<3170, 3171>>, <<3201, 3201>>, <<3260, 3260>>, <<3263, 3263>>,
       <<3270, 3270>>, <<3276, 3277>>, <<3298, 3299>>, <<3328, 3329>>, <<3387, 3388>>,
       <<3393, 3396>>, <<3405, 3405>>, <<3426, 3427>>, <<3457, 3457>>, <<3530, 3530>>,
       <<3538, 3540>>, <<3542, 3542>>, <<3633, 3633>>, <<3636, 3642>>, <<3654, 3662>>,
       <<3761, 3761>>, <<3764, 3772>>, <<3782, 3782>>, <<3784, 3790>>, <<3864, 3865>>,
       <<3893, 3893>>, <<3895, 3895>>, <<3897, 3897>>, <<3953, 3966>>, <<3968, 3972>>,
       <<3974, 3975>>, <<3981, 3991>>, <<3993, 4028>>, <<4038, 4038>>, <<4141, 4144>>,
       <<4146, 4151>>, <<4153, 4154>>, <<4157, 4158>>, <<4184, 4185>>, <<4190, 4192>>,
       <<4209, 4212>>, <<4226, 4226>>, <<4229, 4230>>, <<4237, 4237>>, <<4253, 4253>>,
       <<4348, 4348>>, <<4957, 4959>>, <<5906, 5908>>, <<5938, 5939>>, <<5970, 5971>>,
       <<6002, 6003>>, <<6068, 6069>>, <<6071, 6077>>, <<6086, 6086>>, <<6089, 6099>>,
       <<6103, 6103>>, <<6109, 6109>>, <<6155, 6159>>, <<6211, 6211>>, <<6277, 6278>>,
       <<6313, 6313>>, <<6432, 6434>>, <<6439, 6440>>, <<6450, 6450>>, <<6457, 6459>>,
       <<6679, 6680>>, <<6683, 6683>>, <<6742, 6742>>, <<6744, 6750>>, <<6752, 6752>>,
       <<6754, 6754>>, <<6757, 6764>>, <<6771, 6780>>, <<6783, 6783>>, <<6823, 6823>>,
       <<6832, 6877>>, <<6880, 6891>>, <<6912, 6915>>, <<6964, 6964>>, <<6966, 6970>>,
       <<6972, 6972>>, <<6978, 6978>>, <<7019, 7027>>, <<7040, 7041>>, <<7074, 7077>>,
       <<7080, 7081>>, <<7083, 7085>>, <<7142, 7142>>, <<7144, 7145>>, <<7149, 7149>>,
       <<7151, 7153>>, <<7212, 7219>>, <<7222, 7223>>, <<7288, 7293>>, <<7376, 7378>>,
       <<7380, 7392>>, <<7394, 7400>>, <<7405, 7405>>, <<7412, 7412>>, <<7416, 7417>>,
       <<7468, 7530>>, <<7544, 7544>>, <<7579, 7679>>, <<8125, 8125>>, <<8127, 8129>>,
       <<8141, 8143>>, <<8157, 8159>>, <<8173, 8175>>, <<8189, 8190>>, <<8203, 8207>>,
       <<8216, 8217>>, <<8228, 8228>>, <<8231, 8231>>, <<8234, 8238>>, <<8288, 8292>>,
       <<8294, 8303>>, <<8305, 8305>>, <<8319, 8319>>, <<8336, 8348>>, <<8400, 8432>>,
       <<11388, 11389>>, <<11503, 11505>>, <<11631, 11631>>, <<11647, 11647>>, <<11744, 11775>>,
       <<11823, 11823>>, <<12293, 12293>>, <<12330, 12333>>, <<12337, 12341>>, <<12347, 12347>>,
       <<12441, 12446>>, <<12540, 12542>>, <<40981, 40981>>, <<42232, 42237>>, <<42508, 42508>>,
       <<42607, 42610>>, <<42612, 42621>>, <<42623, 42623>>, <<42652, 42655>>, <<42736, 42737>>,
       <<42752, 42785>>, <<42864, 42864>>, <<42888, 42890>>, <<42993, 42996>>, <<43000, 43001>>,
       <<43010, 43010>>, <<43014, 43014>>, <<43019, 43019>>, <<43045, 43046>>, <<43052, 43052>>,
       <<43204, 43205>>, <<43232, 43249>>, <<43263, 43263>>, <<43302, 43309>>, <<43335, 43345>>,
       <<43392, 43394>>, <<43443, 43443>>, <<43446, 43449>>, <<43452, 43453>>, <<43471, 43471>>,
       <<43493, 43494>>, <<43561, 43566>>, <<43569, 43570>>, <<43573, 43574>>, <<43587, 43587>>,
       <<43596, 43596>>, <<43632, 43632>>, <<43644, 43644>>, <<43696, 43696>>, <<43698, 43700>>,
       <<43703, 43704>>, <<43710, 43711>>, <<43713, 43713>>, <<43741, 43741>>, <<43756, 43757>>,
       <<43763, 43764>>, <<43766, 43766>>, <<43867, 43871>>, <<43881, 43883>>, <<44005, 44005>>,
       <<44008, 44008>>, <<44013, 44013>>, <<64286, 64286>>, <<64434, 64450>>, <<65024, 65039>>,
       <<65043, 65043>>, <<65056, 65071>>, <<65106, 65106>>, <<65109, 65109>>, <<65279, 65279>>,
       <<65287, 65287>>, <<65294, 65294>>, <<65306, 65306>>, <<65342, 65342>>, <<65344, 65344>>,
       <<65392, 65392>>, <<65438, 65439>>, <<65507, 65507>>, <<65529, 65531>>, <<66045, 66045>>,
       <<66272, 66272>>, <<66422, 66426>>, <<67456, 67461>>, <<67463, 67504>>, <<67506, 67514>>,
       <<68097, 68099>>, <<68101, 68102>>, <<68108, 68111>>, <<68152, 68154>>, <<68159, 68159>>,
       <<68325, 68326>>, <<68900, 68903>>, <<68942, 68942>>, <<68969, 68973>>, <<68975, 68975>>,
       <<69291, 69292>>, <<69317, 69317>>, <<69370, 69375>>, <<69446, 69456>>, <<69506, 69509>>,
       <<69633, 69633>>, <<69688, 69702>>, <<69744, 69744>>, <<69747, 69748>>, <<69759, 69761>>,
       <<69811, 69814>>, <<69817, 69818>>, <<69821, 69821>>, <<69826, 69826>>, <<69837, 69837>>,
       <<69888, 69890>>, <<69927, 69931>>, <<69933, 69940>>, <<70003, 70003>>, <<70016, 70017>>,
       <<70070, 70078>>, <<70089, 70092>>, <<70095, 70095>>, <<70191, 70193>>, <<70196, 70196>>,
       <<70198, 70199>>, <<70206, 70206>>, <<70209, 70209>>, <<70367, 70367>>, <<70371, 70378>>,
       <<70400, 70401>>, <<70459, 70460>>, <<70464, 70464>>, <<70502, 70508>>, <<70512, 70516>>,
       <<70587, 70592>>, <<70606, 70606>>, <<70608, 70608>>, <<70610, 70610>>, <<70625, 70626>>,
       <<70712, 70719>>, <<70722, 70724>>, <<70726, 70726>>, <<70750, 70750>>, <<70835, 70840>>,
       <<70842, 70842>>, <<70847, 70848>>, <<70850, 70851>>, <<71090, 71093>>, <<71100, 71101>>,
       <<71103, 71104>>, <<71132, 71133>>, <<71219, 71226>>, <<71229, 71229>>, <<71231, 71232>>,
       <<71339, 71339>>, <<71341, 71341>>, <<71344, 71349>>, <<71351, 71351>>, <<71453, 71453>>,
       <<71455, 71455>>, <<71458, 71461>>, <<71463, 71467>>, <<71727, 71735>>, <<71737, 71738>>,
       <<71995, 71996>>, <<71998, 71998>>, <<72003, 72003>>, <<72148, 72151>>, <<72154, 72155>>,
       <<72160, 72160>>, <<72193, 72202>>, <<72243, 72248>>, <<72251, 72254>>, <<72263, 72263>>,
       <<72273, 72278>>, <<72281, 72283>>, <<72330, 72342>>, <<72344, 72345>>, <<72544, 72544>>,
       <<72546, 72548>>, <<72550, 72550>>, <<72752, 72758>>, <<72760, 72765>>, <<72767, 72767>>,
       <<72850, 72871>>, <<72874, 72880>>, <<72882, 72883>>, <<72885, 72886>>, <<73009, 73014>>,
       <<73018, 73018>>, <<73020, 73021>>, <<73023, 73029>>, <<73031, 73031>>, <<73104, 73105>>,
       <<73109, 73109>>, <<73111, 73111>>, <<73177, 73177>>, <<73459, 73460>>, <<73472, 73473>>,
       <<73526, 73530>>, <<73536, 73536>>, <<73538, 73538>>, <<73562, 73562>>, <<78896, 78912>>,
       <<78919, 78933>>, <<90398, 90409>>, <<90413, 90415>>, <<92912, 92916>>, <<92976, 92982>>,
       <<92992, 92995>>, <<93504, 93506>>, <<93547, 93548>>, <<94031, 94031>>, <<94095, 94111>>,
       <<94176, 94177>>, <<94179, 94180>>, <<94194, 94195>>, <<110576, 110579>>, <<110581, 110587>>,
       <<110589, 110590>>, <<113821, 113822>>, <<113824, 113827>>, <<118528, 118573>>, <<118576, 118598>>,
       <<119143, 119145>>, <<119155, 119170>>, <<119173, 119179>>, <<119210, 119213>>, <<119362, 119364>>,
       <<121344, 121398>>, <<121403, 121452>>, <<121461, 121461>>, <<121476, 121476>>, <<121499, 121503>>,
       <<121505, 121519>>, <<122880, 122886>>, <<122888, 122904>>, <<122907, 122913>>, <<122915, 122916>>,
       <<122918, 122922>>, <<122928, 122989>>, <<123023, 123023>>, <<123184, 123197>>, <<123566, 123566>>,
       <<123628, 123631>>, <<124139, 124143>>, <<124398, 124399>>, <<124643, 124643>>, <<124646, 124646>>,
       <<124654, 124655>>, <<124661, 124661>>, <<124671, 124671>>, <<125136, 125142>>, <<125252, 125259>>,
       <<127995, 127999>>, <<917505, 917505>>, <<917536, 917631>>, <<917760, 917999>> >>

InRanges(c, ranges) == \E k \in 1..Len(ranges) : ranges[k][1] <= c /\ c <= ranges[k][2]

(* the code units of the two halves of a code point beyond U+FFFF *)
HighSurrogates == 55296..56319

LowSurrogates == 56320..57343

(* the unit at i starts, or ends, a surrogate pair *)
IsLead(u, i) == i < Len(u) /\ u[i] \in HighSurrogates /\ u[i + 1] \in LowSurrogates

IsTrail(u, i) == i > 1 /\ u[i] \in LowSurrogates /\ u[i - 1] \in HighSurrogates

(* u.codePointAt(i) *)
CodePointAt(u, i) ==
    IF IsLead(u, i) THEN 65536 + (u[i] - 55296) * 1024 + (u[i + 1] - 56320) ELSE u[i]

(* String.fromCodePoint(c), as code units *)
UnitsOfCodePoint(c) ==
    IF c < 65536 THEN <<c>>
    ELSE <<55296 + ((c - 65536) \div 1024), 56320 + ((c - 65536) % 1024)>>

(* the ranges of LowerRanges that hold the code point c: one or none *)
LowerRangesOf(c) ==
    {k \in 1..Len(LowerRanges) :
        /\ LowerRanges[k][1] <= c
        /\ c <= LowerRanges[k][2]
        /\ (c - LowerRanges[k][1]) % LowerRanges[k][3] = 0}

LowerByRange(c, hits) ==
    IF hits = {} THEN c ELSE c + LowerRanges[CHOOSE k \in hits : TRUE][4]

(* the lower-case form of one code point standing alone, U+0130 apart *)
LowerChar(c) == LowerByRange(c, LowerRangesOf(c))

IsCasedAt(u, j) == ~IsTrail(u, j) /\ InRanges(CodePointAt(u, j), CasedRanges)

IsCaseIgnorableAt(u, j) ==
    IsTrail(u, j) \/ InRanges(CodePointAt(u, j), CaseIgnorableRanges)

(* Final_Sigma: the character at i follows a cased letter and case-        *)
(* ignorable characters, and no cased letter follows it after case-        *)
(* ignorable characters                                                    *)
FinalSigma(u, i) ==
    /\ \E j \in 1..(i - 1) :
          /\ IsCasedAt(u, j)
          /\ \A l \in (j + 1)..(i - 1) : IsCaseIgnorableAt(u, l)
    /\ ~\E j \in (i + 1)..Len(u) :
          /\ IsCasedAt(u, j)
          /\ \A l \in (i + 1)..(j - 1) : IsCaseIgnorableAt(u, l)

(* the code units that the lower-case string holds for the unit at i: the  *)
(* second half of a pair comes with the first; 931 is the capital sigma,   *)
(* 962 the final sigma, and U+0130 (304) becomes i and a combining dot     *)
LowerAt(u, i) ==
    IF IsTrail(u, i) THEN <<>>
    ELSE IF u[i] = 931 /\ FinalSigma(u, i) THEN <<962>>
    ELSE IF u[i] = 304 THEN <<105, 775>>
    ELSE UnitsOfCodePoint(LowerChar(CodePointAt(u, i)))

RECURSIVE LowerRange(_, _, _)
LowerRange(u, lo, hi) ==
    IF lo > hi THEN <<>>
    ELSE IF lo = hi THEN LowerAt(u, lo)
    ELSE LowerRange(u, lo, (lo + hi) \div 2) \o LowerRange(u, ((lo + hi) \div 2) + 1, hi)

(* s.toLowerCase() on the code units of s *)
ToLowerCase(u) == LowerRange(u, 1, Len(u))

(* the code units String.prototype.trim strips: WhiteSpace (tab, vertical  *)
(* tab, form feed, U+FEFF and the space separators) and LineTerminator     *)
SpaceUnits ==
    {9, 10, 11, 12, 13, 32, 160, 5760, 8232, 8233, 8239, 8287, 12288, 65279}
    \cup (8192..8202)

(* u.trim() on code units *)
TrimUnits(u) ==
    LET keep == {i \in 1..Len(u) : u[i] \notin SpaceUnits}
    IN  IF keep = {} THEN <<>>
        ELSE SubSeq(u, CHOOSE i \in keep : \A j \in keep : i <= j,
                       CHOOSE i \in keep : \A j \in keep : j <= i)

StartsWith(s, prefix) ==
    /\ Len(s) >= Len(prefix)
    /\ SubSeq(s, 1, Len(prefix)) = prefix

(* the position of the k-th comma (code unit 44) of u; 0 for k = 0 and     *)
(* Len(u) + 1 past the last comma                                          *)
CommaUnit(u, commas, k) ==
    IF k = 0 THEN 0
    ELSE IF k > Cardinality(commas) THEN Len(u) + 1
    ELSE CHOOSE i \in commas : Cardinality({j \in commas : j < i}) = k - 1

UnitsBetween(u, commas) ==
    [k \in 1..(Cardinality(commas) + 1) |->
        SubSeq(u, CommaUnit(u, commas, k - 1) + 1, CommaUnit(u, commas, k) - 1)]

(* u.split(',') on code units *)
SplitUnits(u) == UnitsBetween(u, {i \in 1..Len(u) : u[i] = 44})

RECURSIVE NatToString(_)
NatToString(n) ==
    IF n < 10 THEN CharAt("0123456789", n + 1)
    ELSE NatToString(n \div 10) \o CharAt("0123456789", (n % 10) + 1)

IntToString(n) == IF n < 0 THEN "-" \o NatToString(0 - n) ELSE NatToString(n)

RECURSIVE DigitsValue(_)
DigitsValue(s) ==
    IF Len(s) = 0 THEN 0
    ELSE 10 * DigitsValue(SubSeq(s, 1, Len(s) - 1)) + DigitValue(CharAt(s, Len(s)))

AllDigits(s) == Len(s) > 0 /\ \A i \in 1..Len(s) : IsDigit(CharAt(s, i))

Abs(n) == IF n < 0 THEN 0 - n ELSE n

RECURSIVE Pow10(_)
Pow10(k) == IF k <= 0 THEN 1 ELSE 10 * Pow10(k - 1)

(* the number of decimal digits of a natural number *)
RECURSIVE NumDigits(_)
NumDigits(n) == IF n < 10 THEN 1 ELSE 1 + NumDigits(n \div 10)

RECURSIVE Zeros(_)
Zeros(k) == IF k <= 0 THEN "" ELSE "0" \o Zeros(k - 1)

(* Natural numbers of any size: the sequence of their base-1000 digits,    *)
(* least significant first, without a leading zero digit; zero is <<>>.    *)
BigBase == 1000

Max(a, b) == IF a < b THEN b ELSE a

(* the zero digits at the high end removed *)
StripHigh(a) ==
    IF \A i \in 1..Len(a) : a[i] = 0 THEN <<>>
    ELSE SubSeq(a, 1, CHOOSE i \in 1..Len(a) : a[i] # 0 /\ \A j \in (i + 1)..Len(a) : a[j] = 0)

(* The carries of the column values lo..hi taken to the next column, from  *)
(* the carry that comes into column lo: the digits of the columns and the  *)
(* carry that leaves column hi. The range is halved, so that the depth of  *)
(* the evaluation grows with the logarithm of its length.                  *)
RECURSIVE Propagate(_, _, _, _)
Joined(left, right) == [d |-> left.d \o right.d, c |-> right.c]

PropagateRight(cols, mid, hi, left) == Joined(left, Propagate(cols, mid + 1, hi, left.c))

Propagate(cols, lo, hi, carry) ==
    IF lo > hi THEN [d |-> <<>>, c |-> carry]
    ELSE IF lo = hi
    THEN [d |-> <<(cols[lo] + carry) % BigBase>>, c |-> (cols[lo] + carry) \div BigBase]
    ELSE PropagateRight(cols, (lo + hi) \div 2, hi,
                        Propagate(cols, lo, (lo + hi) \div 2, carry))

(* the base-1000 digits of a carry *)
RECURSIVE CarryDigits(_)
CarryDigits(carry) ==
    IF carry = 0 THEN <<>> ELSE <<carry % BigBase>> \o CarryDigits(carry \div BigBase)

Carried(p) == p.d \o CarryDigits(p.c)

BigNormal(cols) == StripHigh(Carried(Propagate(cols, 1, Len(cols), 0)))

(* the sum of a[j] * b[i - j + 1] over j in lo..hi *)
RECURSIVE ColumnSum(_, _, _, _, _)
ColumnSum(a, b, i, lo, hi) ==
    IF lo > hi THEN 0
    ELSE IF lo = hi THEN a[lo] * b[i - lo + 1]
    ELSE ColumnSum(a, b, i, lo, (lo + hi) \div 2)
         + ColumnSum(a, b, i, ((lo + hi) \div 2) + 1, hi)

Min(a, b) == IF a < b THEN a ELSE b

BigMul(a, b) ==
    IF a = <<>> \/ b = <<>> THEN <<>>
    ELSE BigNormal([i \in 1..(Len(a) + Len(b) - 1) |->
                      ColumnSum(a, b, i, Max(1, i - Len(b) + 1), Min(i, Len(a)))])

(* a * m for a small natural m *)
BigMulSmall(a, m) == BigNormal([i \in 1..Len(a) |-> a[i] * m])

(* a + m for a small integer m, a + m being no less than 0 *)
BigAddSmall(a, m) ==
    BigNormal(IF a = <<>> THEN <<m>> ELSE [a EXCEPT ![1] = @ + m])

LimbAt(a, i) == IF i <= Len(a) THEN a[i] ELSE 0

BigAdd(a, b) == BigNormal([i \in 1..Max(Len(a), Len(b)) |-> LimbAt(a, i) + LimbAt(b, i)])

(* a - b, a being no less than b *)
BigSub(a, b) == BigNormal([i \in 1..Max(Len(a), Len(b)) |-> LimbAt(a, i) - LimbAt(b, i)])

BigLess(a, b) ==
    \/ Len(a) < Len(b)
    \/ /\ Len(a) = Len(b)
       /\ \E i \in 1..Len(a) : a[i] < b[i] /\ \A j \in (i + 1)..Len(a) : a[j] = b[j]

BigSquare(a) == BigMul(a, a)

(* b^k for a small natural b *)
RECURSIVE BigPow(_, _)
BigPow(b, k) ==
    IF k = 0 THEN <<1>>
    ELSE IF k % 2 = 0 THEN BigSquare(BigPow(b, k \div 2))
    ELSE BigMulSmall(BigPow(b, k - 1), b)

(* the decimal digits of a big natural other than 0, most significant first *)
BigDigitCount(a) == 3 * (Len(a) - 1) + NumDigits(a[Len(a)])

BigDigits(a) ==
    [p \in 1..BigDigitCount(a) |->
        (a[((BigDigitCount(a) - p) \div 3) + 1] \div Pow10((BigDigitCount(a) - p) % 3)) % 10]

(* the digit of weight 10^e in a sequence of decimal digits *)
DigitOfWeight(ds, e) == IF e < Len(ds) THEN ds[Len(ds) - e] ELSE 0

(* the big natural of a sequence of decimal digits *)
BigOfDigits(ds) ==
    StripHigh([i \in 1..((Len(ds) + 2) \div 3) |->
                 DigitOfWeight(ds, 3 * i - 3) + 10 * DigitOfWeight(ds, 3 * i - 2)
                 + 100 * DigitOfWeight(ds, 3 * i - 1)])

(* the digits of a string of decimal digits *)
DigitSeq(s) == [i \in 1..Len(s) |-> DigitValue(CharAt(s, i))]

(* a < b for two sequences of digits of the same length *)
SeqLess(a, b) ==
    \E i \in 1..Len(a) : a[i] < b[i] /\ \A j \in 1..(i - 1) : a[j] = b[j]

-----------------------------------------------------------------------------
(* IEEE 754 double precision: a finite number other than 0 is q * 2^k with *)
(* q below 2^53 and k from -1074 to 971, and q at least 2^52 unless k is   *)
(* -1074. A decimal is rounded to the nearest such number, to the one with *)
(* even q when two are as near.                                            *)
MinBinaryExponent == -1074
MaxBinaryExponent == 971

TwoTo53 == <<9, 0, 0, 7, 1, 9, 9, 2, 5, 4, 7, 4, 0, 9, 9, 2>>
TwoTo52 == <<4, 5, 0, 3, 5, 9, 9, 6, 2, 7, 3, 7, 0, 4, 9, 6>>

(* a lower bound of floor(m * log2(10)) *)
LogLow(m) == IF m >= 0 THEN (m * 33219) \div 10000 ELSE (m * 33220) \div 10000

(* the digits before and after the point of ds * 10^s *)
IntegerDigits(ds, s) ==
    IF s >= 0 THEN ds \o [i \in 1..s |-> 0]
    ELSE IF Len(ds) + s <= 0 THEN <<>>
    ELSE SubSeq(ds, 1, Len(ds) + s)

FractionDigits(ds, s) ==
    IF s >= 0 THEN <<>>
    ELSE IF Len(ds) + s >= 0 THEN SubSeq(ds, Len(ds) + s + 1, Len(ds))
    ELSE [i \in 1..(0 - (Len(ds) + s)) |-> 0] \o ds

(* the integer part of ds * 10^s is below 2^53 *)
FitsSignificand(ds, s) ==
    \/ Len(ds) + s < 16
    \/ Len(ds) + s = 16 /\ SeqLess(IntegerDigits(ds, s), TwoTo53)

(* x * 10^s = v / 2^k: k raised until the integer part is below 2^53 *)
RECURSIVE ScaleTo(_, _, _)
ScaleTo(x, s, k) ==
    IF FitsSignificand(BigDigits(x), s) THEN [x |-> x, s |-> s, k |-> k]
    ELSE ScaleTo(BigMulSmall(x, 5), s - 1, k + 1)

(* round half to even: the fraction is above one half, or one half with    *)
(* an odd integer part                                                     *)
RoundsUp(int, frac) ==
    /\ frac # <<>>
    /\ \/ frac[1] > 5
       \/ /\ frac[1] = 5
          /\ \/ \E i \in 2..Len(frac) : frac[i] # 0
             \/ int # <<>> /\ int[Len(int)] % 2 = 1

RoundedSignificand(int, frac) ==
    IF RoundsUp(int, frac) THEN BigAddSmall(BigOfDigits(int), 1) ELSE BigOfDigits(int)

(* q = 2^53 after rounding is 2^52 with the next exponent *)
Renormalized(q, k) ==
    IF q = BigOfDigits(TwoTo53) THEN [q |-> BigOfDigits(TwoTo52), k |-> k + 1]
    ELSE [q |-> q, k |-> k]

NearestOfScaled(ds, s, k) ==
    Renormalized(RoundedSignificand(IntegerDigits(ds, s), FractionDigits(ds, s)), k)

NearestOf(y) == NearestOfScaled(BigDigits(y.x), y.s, y.k)

(* the double nearest to 0.d * 10^n, d a sequence of digits that starts    *)
(* with no 0, from the first exponent k0 it can have                       *)
NearestFrom(d, n, k0) ==
    NearestOf(ScaleTo(BigMul(BigOfDigits(d),
                             IF k0 >= 0 THEN BigPow(5, k0) ELSE BigPow(2, 0 - k0)),
                      (n - Len(d)) - Max(k0, 0), k0))

NearestDouble(d, n) == NearestFrom(d, n, Max(MinBinaryExponent, LogLow(n - 1) - 52))

-----------------------------------------------------------------------------
(* Number::toString: the decimal with the fewest digits that rounds to the *)
(* double, the nearest to it of those, the even one of two as near.        *)

(* q is 2^52 above the least exponent: the next double below is half as    *)
(* far as the next above                                                   *)
AtBinade(q, k) == q = BigOfDigits(TwoTo52) /\ k > MinBinaryExponent

PadTo(ds, w) == [i \in 1..(w - Len(ds)) |-> 0] \o ds

(* mid cut after p digits, and the next decimal of p digits above it *)
Down(mid, p) == [i \in 1..Len(mid) |-> IF i <= p THEN mid[i] ELSE 0]

LastBelowNine(mid, p) ==
    CHOOSE j \in 1..p : mid[j] # 9 /\ \A l \in (j + 1)..p : mid[l] = 9

UpAt(mid, p, j) ==
    [i \in 1..Len(mid) |-> IF i < j THEN mid[i] ELSE IF i = j THEN mid[j] + 1 ELSE 0]

Up(mid, p) == UpAt(mid, p, LastBelowNine(mid, p))

(* c rounds to the double: it is between the half-way points, which        *)
(* themselves round to it when q is even                                   *)
Within(c, lo, hi, inclusive) ==
    IF inclusive THEN ~SeqLess(c, lo) /\ ~SeqLess(hi, c)
    ELSE SeqLess(lo, c) /\ SeqLess(c, hi)

(* of Down and Up, both within: Down when mid is nearer to it, or as near  *)
(* and its last digit is even                                              *)
PrefersDown(mid, p) ==
    \/ p = Len(mid)
    \/ mid[p + 1] < 5
    \/ /\ mid[p + 1] = 5
       /\ \A i \in (p + 2)..Len(mid) : mid[i] = 0
       /\ mid[p] % 2 = 0

RECURSIVE ShortestAt(_, _, _, _, _)
ShortestAt(lo, mid, hi, inclusive, p) ==
    IF Within(Down(mid, p), lo, hi, inclusive)
    THEN IF Within(Up(mid, p), lo, hi, inclusive) /\ ~PrefersDown(mid, p)
         THEN Up(mid, p)
         ELSE Down(mid, p)
    ELSE IF Within(Up(mid, p), lo, hi, inclusive) THEN Up(mid, p)
    ELSE ShortestAt(lo, mid, hi, inclusive, p + 1)

FirstNonZero(c) == CHOOSE i \in 1..Len(c) : c[i] # 0 /\ \A j \in 1..(i - 1) : c[j] = 0
LastNonZero(c) == CHOOSE i \in 1..Len(c) : c[i] # 0 /\ \A j \in (i + 1)..Len(c) : c[j] = 0

RECURSIVE DigitStringOf(_, _, _)
DigitStringOf(ds, lo, hi) ==
    IF lo > hi THEN ""
    ELSE IF lo = hi THEN NatToString(ds[lo])
    ELSE DigitStringOf(ds, lo, (lo + hi) \div 2)
         \o DigitStringOf(ds, ((lo + hi) \div 2) + 1, hi)

DigitString(ds) == DigitStringOf(ds, 1, Len(ds))

(* the digits of c * 10^ex without the zeros at either end, and the        *)
(* position n of the point: c * 10^ex = 0.digits * 10^n                    *)
DecimalOfDigits(c, ex) ==
    [d |-> DigitString(SubSeq(c, FirstNonZero(c), LastNonZero(c))),
     n |-> Len(c) - FirstNonZero(c) + 1 + ex]

ShortestBetween(lo, mid, hi, w, inclusive, ex) ==
    DecimalOfDigits(ShortestAt(PadTo(lo, w), PadTo(mid, w), PadTo(hi, w), inclusive, 1), ex)

ShortestScaled(lo, mid, hi, inclusive, ex) ==
    ShortestBetween(BigDigits(lo), BigDigits(mid), BigDigits(hi),
                    BigDigitCount(hi) + 1, inclusive, ex)

(* the half-way points and the double in units of 2^(k - 2), times p *)
ShortestTimes(q4, below, p, inclusive, ex) ==
    ShortestScaled(BigMul(BigAddSmall(q4, 0 - below), p), BigMul(q4, p),
                   BigMul(BigAddSmall(q4, 2), p), inclusive, ex)

ShortestDecimal(q, k) ==
    ShortestTimes(BigMulSmall(q, 4), IF AtBinade(q, k) THEN 1 ELSE 2,
                  IF k >= 2 THEN BigPow(2, k - 2) ELSE BigPow(5, 2 - k),
                  q[1] % 2 = 0, IF k >= 2 THEN 0 ELSE k - 2)

-----------------------------------------------------------------------------
(* Number(string) *)

(* s without its zeros at the start *)
StripLeadingZeros(s) ==
    IF \A i \in 1..Len(s) : CharAt(s, i) = "0" THEN ""
    ELSE SubSeq(s, CHOOSE i \in 1..Len(s) :
                      CharAt(s, i) # "0" /\ \A j \in 1..(i - 1) : CharAt(s, j) = "0",
                Len(s))

(* s without its zeros at the end *)
StripTrailingZeros(s) ==
    IF \A i \in 1..Len(s) : CharAt(s, i) = "0" THEN ""
    ELSE SubSeq(s, 1, CHOOSE i \in 1..Len(s) :
                         CharAt(s, i) # "0" /\ \A j \in (i + 1)..Len(s) : CharAt(s, j) = "0")

(* the double 0.d * 10^n as a value, d and n as Number::toString gives them *)
NumberOfDecimal(neg, d, n) ==
    IF Len(d) <= n /\ n <= 9
    THEN Num((IF neg THEN -1 ELSE 1) * DigitsValue(d) * Pow10(n - Len(d)))
    ELSE Decimal(neg, d, n)

NumberOfShortest(neg, sd) == NumberOfDecimal(neg, sd.d, sd.n)

(* the value of the double q * 2^k; beyond the largest exponent Infinity *)
NumberOfNearest(neg, r) ==
    IF r.q = <<>> THEN Num(0)
    ELSE IF r.k > MaxBinaryExponent THEN Infinity(neg)
    ELSE NumberOfShortest(neg, ShortestDecimal(r.q, r.k))

(* the decimal 0.d * 10^n rounded to a double, d a digit string that       *)
(* neither starts nor ends with 0. From 10^309 on the double is Infinity,  *)
(* below 10^-324 it is 0; a decimal of at most 15 digits well inside the   *)
(* range of the doubles is the shortest decimal of its double.             *)
RoundedDecimal(neg, d, n) ==
    IF n > 309 THEN Infinity(neg)
    ELSE IF n < -323 THEN Num(0)
    ELSE IF Len(d) <= 15 /\ n >= -300 /\ n <= 300 THEN NumberOfDecimal(neg, d, n)
    ELSE NumberOfNearest(neg, NearestDouble(DigitSeq(d), n))

(* the decimal 0.digits * 10^point rounded to a double, for any string of  *)
(* digits                                                                  *)
NumberOfDigits(neg, digits, point) ==
    IF StripLeadingZeros(digits) = "" THEN Num(0)
    ELSE RoundedDecimal(neg, StripTrailingZeros(StripLeadingZeros(digits)),
                        point - (Len(digits) - Len(StripLeadingZeros(digits))))

(* the integer k as a value *)
NumberOfInteger(k) == NumberOfDigits(k < 0, NatToString(Abs(k)), NumDigits(Abs(k)))

(* the double nearest to m * 10^e, m an integer *)
Dec(m, e) == NumberOfDigits(m < 0, NatToString(Abs(m)), NumDigits(Abs(m)) + e)

(* the digit of a character in a radix up to 16, or 16 for no digit *)
RadixDigit(c) ==
    CASE IsDigit(c) -> DigitValue(c)
      [] c \in {"a", "A"} -> 10
      [] c \in {"b", "B"} -> 11
      [] c \in {"c", "C"} -> 12
      [] c \in {"d", "D"} -> 13
      [] c \in {"e", "E"} -> 14
      [] c \in {"f", "F"} -> 15
      [] OTHER -> 16

(* the big natural of a string of digits in a radix *)
RECURSIVE RadixRange(_, _, _, _)
RadixRange(s, radix, lo, hi) ==
    IF lo > hi THEN <<>>
    ELSE IF lo = hi THEN BigNormal(<<RadixDigit(CharAt(s, lo))>>)
    ELSE BigAdd(BigMul(RadixRange(s, radix, lo, (lo + hi) \div 2),
                       BigPow(radix, hi - ((lo + hi) \div 2))),
                RadixRange(s, radix, ((lo + hi) \div 2) + 1, hi))

RadixValue(s, radix) == RadixRange(s, radix, 1, Len(s))

(* 0x.., 0o.., 0b..: the radix of the prefix, or 0 without one *)
RadixOfPrefix(body) ==
    IF Len(body) < 2 \/ CharAt(body, 1) # "0" THEN 0
    ELSE CASE CharAt(body, 2) \in {"x", "X"} -> 16
           [] CharAt(body, 2) \in {"o", "O"} -> 8
           [] CharAt(body, 2) \in {"b", "B"} -> 2
           [] OTHER -> 0

(* an optional sign and digits: the exponent part of a decimal literal *)
IsSignedDigits(s) ==
    \/ AllDigits(s)
    \/ Len(s) > 1 /\ CharAt(s, 1) \in {"+", "-"} /\ AllDigits(SubSeq(s, 2, Len(s)))

(* the value of a string of digits without leading zeros, and 2 * 10^9    *)
(* for a value from 2 * 10^9 on                                            *)
CappedValue(e) ==
    IF Len(e) <= 9 THEN DigitsValue(e)
    ELSE IF Len(e) = 10 /\ CharAt(e, 1) = "1"
         THEN 1000000000 + DigitsValue(SubSeq(e, 2, 10))
    ELSE 2000000000

CappedDigitsValue(s) == CappedValue(StripLeadingZeros(s))

(* the digits of an exponent part after its sign *)
ExponentDigits(s) ==
    IF CharAt(s, 1) \in {"+", "-"} THEN SubSeq(s, 2, Len(s)) ELSE s

(* p + m for an exponent of size m, p - m for a negative one, kept inside  *)
(* -324..310: a string has fewer than 2^30 characters, so that p is        *)
(* smaller than 2^30 in size, and no sum is formed that leaves the range   *)
(* of the machine integers                                                 *)
ShiftedPoint(p, negative, m) ==
    IF negative
    THEN IF p - 309 > m THEN 310 ELSE IF p + 323 < m THEN -324 ELSE p - m
    ELSE IF m > 309 - p THEN 310 ELSE IF m < (-323) - p THEN -324 ELSE p + m

(* the position of the point of 0.d * 10^n for the digits after their      *)
(* leading zeros, the point standing after `whole` digits and moved by the *)
(* exponent part                                                           *)
PointOf(digits, whole, expo, hasExponent) ==
    IF hasExponent
    THEN ShiftedPoint(whole - (Len(digits) - Len(StripLeadingZeros(digits))),
                      CharAt(expo, 1) = "-", CappedDigitsValue(ExponentDigits(expo)))
    ELSE whole - (Len(digits) - Len(StripLeadingZeros(digits)))

(* the decimal 0.digits * 10^point of a literal rounded to a double *)
NumberOfLiteral(neg, digits, whole, expo, hasExponent) ==
    IF StripLeadingZeros(digits) = "" THEN Num(0)
    ELSE RoundedDecimal(neg, StripTrailingZeros(StripLeadingZeros(digits)),
                        PointOf(digits, whole, expo, hasExponent))

(* the position of the first character of s that is in chars, or Len(s)+1 *)
FirstIndex(s, chars) ==
    IF \A i \in 1..Len(s) : CharAt(s, i) \notin chars THEN Len(s) + 1
    ELSE CHOOSE i \in 1..Len(s) :
            /\ CharAt(s, i) \in chars
            /\ \A j \in 1..(i - 1) : CharAt(s, j) \notin chars

(* the number of a decimal literal cut into the digits before the point,   *)
(* the digits after it and the exponent part, or NaN when a part is no     *)
(* digit string or no digit is left                                        *)
DecimalOf(whole, frac, expo, hasExponent, neg) ==
    IF /\ (whole = "" \/ AllDigits(whole))
       /\ (frac = "" \/ AllDigits(frac))
       /\ Len(whole) + Len(frac) >= 1
       /\ (~hasExponent \/ IsSignedDigits(expo))
    THEN NumberOfLiteral(neg, whole \o frac, Len(whole), expo, hasExponent)
    ELSE NaN

(* the mantissa cut at its first point *)
DecimalLiteral(mant, expo, hasExponent, neg) ==
    DecimalOf(SubSeq(mant, 1, FirstIndex(mant, {"."}) - 1),
              SubSeq(mant, FirstIndex(mant, {"."}) + 1, Len(mant)),
              expo, hasExponent, neg)

(* an unsigned decimal literal: digits, an optional point with digits on   *)
(* either side (at least one digit in all), an optional exponent           *)
UnsignedDecimal(u, neg) ==
    DecimalLiteral(SubSeq(u, 1, FirstIndex(u, {"e", "E"}) - 1),
                   SubSeq(u, FirstIndex(u, {"e", "E"}) + 1, Len(u)),
                   FirstIndex(u, {"e", "E"}) <= Len(u), neg)

(* the double nearest to a big natural *)
RadixNumber(big) ==
    IF big = <<>> THEN Num(0)
    ELSE NumberOfDigits(FALSE, DigitString(BigDigits(big)), BigDigitCount(big))

(* the number of a radix literal given its digits *)
RadixLiteral(numeral, radix) ==
    IF Len(numeral) > 0 /\ \A i \in 1..Len(numeral) : RadixDigit(CharAt(numeral, i)) < radix
    THEN RadixNumber(RadixValue(numeral, radix))
    ELSE NaN

(* Number of a string without surrounding white space *)
NumberOfTrimmed(body) ==
    IF body = "" THEN Num(0)
    ELSE IF RadixOfPrefix(body) # 0
         THEN RadixLiteral(SubSeq(body, 3, Len(body)), RadixOfPrefix(body))
    ELSE IF CharAt(body, 1) \in {"+", "-"}
         THEN IF SubSeq(body, 2, Len(body)) = "Infinity" THEN Infinity(CharAt(body, 1) = "-")
              ELSE UnsignedDecimal(SubSeq(body, 2, Len(body)), CharAt(body, 1) = "-")
    ELSE IF body = "Infinity" THEN Infinity(FALSE)
    ELSE UnsignedDecimal(body, FALSE)

(* the string of code units below 128 other than 0 and 96 *)
RECURSIVE AsciiRange(_, _, _)
AsciiRange(u, lo, hi) ==
    IF lo > hi THEN ""
    ELSE IF lo = hi THEN CharAt(UnitTable, IF u[lo] < 96 THEN u[lo] ELSE u[lo] - 1)
    ELSE AsciiRange(u, lo, (lo + hi) \div 2) \o AsciiRange(u, ((lo + hi) \div 2) + 1, hi)

(* Number of a string without surrounding white space given by its code   *)
(* units: no numeric literal holds a unit from 128 on, U+0000 or a grave   *)
(* accent                                                                  *)
NumberOfTrimmedUnits(body) ==
    IF \A i \in 1..Len(body) : body[i] \in (1..95) \cup (97..127)
    THEN NumberOfTrimmed(AsciiRange(body, 1, Len(body)))
    ELSE NaN

(* Number(string) on code units *)
NumberOfUnits(u) == NumberOfTrimmedUnits(TrimUnits(u))

(* Number(string): surrounding white space is dropped; the empty string is *)
(* 0; a radix literal has no sign; Infinity and a decimal literal may have *)
(* one; anything else is NaN.                                              *)
StringToNumber(s) == NumberOfUnits(Units(s))

(* the text of a number given its sign, its digits d, their count k and    *)
(* the position n of the point (value = 0.d * 10^n)                        *)
DecFormat(sign, d, k, n) ==
    sign \o
    (IF k <= n /\ n <= 21 THEN d \o Zeros(n - k)
     ELSE IF 0 < n /\ n <= 21 THEN SubSeq(d, 1, n) \o "." \o SubSeq(d, n + 1, k)
     ELSE IF -6 < n /\ n <= 0 THEN "0." \o Zeros(0 - n) \o d
     ELSE (IF k = 1 THEN d ELSE SubSeq(d, 1, 1) \o "." \o SubSeq(d, 2, k))
          \o (IF n - 1 < 0 THEN "e-" ELSE "e+") \o NatToString(Abs(n - 1)))

(* Number.prototype.toString of a value kept as Decimal *)
DecToString(v) == DecFormat(IF v.neg THEN "-" ELSE "", v.d, Len(v.d), v.n)

(* String(v) of a primitive value, of an inherited method and of           *)
(* Object.prototype                                                        *)
PrimToString(v) ==
    CASE v.t = "undefined" -> "undefined"
      [] v.t = "null" -> "null"
      [] v.t = "nan" -> "NaN"
      [] v.t = "boolean" -> (IF v.b THEN "true" ELSE "false")
      [] v.t = "number" -> IntToString(v.n)
      [] v.t = "decimal" -> DecToString(v)
      [] v.t = "infinity" -> (IF v.neg THEN "-Infinity" ELSE "Infinity")
      [] v.t = "function" -> "function " \o v.name \o "() { [native code] }"
      [] v.t \in {"prototype", "object"} -> "[object Object]"

(* the code units of parts.join(',') *)
RECURSIVE JoinUnits(_, _, _)
JoinUnits(parts, lo, hi) ==
    IF lo > hi THEN <<>>
    ELSE IF lo = hi THEN parts[lo]
    ELSE JoinUnits(parts, lo, (lo + hi) \div 2) \o <<44>>
         \o JoinUnits(parts, ((lo + hi) \div 2) + 1, hi)

(* the code units of String(v); an array joins the strings of its elements *)
(* with ",", null and undefined elements giving the empty string.          *)
RECURSIVE StringUnits(_)
StringUnits(v) ==
    IF v.t = "string" THEN UnitsOf(v)
    ELSE IF v.t = "array"
    THEN JoinUnits([i \in 1..Len(v.a) |->
                      IF v.a[i].t \in {"undefined", "null"} THEN <<>>
                      ELSE StringUnits(v.a[i])], 1, Len(v.a))
    ELSE Units(PrimToString(v))

(* Number(v) *)
JsNumber(v) ==
    CASE v.t = "undefined" -> NaN
      [] v.t = "null" -> Num(0)
      [] v.t = "boolean" -> (IF v.b THEN Num(1) ELSE Num(0))
      [] IsNumberType(v) -> v
      [] v.t \in {"string", "array", "function", "prototype", "object"} ->
           NumberOfUnits(StringUnits(v))

(* a < b on strings: code-unit lexicographic order *)
UnitsLess(a, b) ==
    \E k \in 1..(Len(b)) :
        /\ \A i \in 1..(k - 1) : i <= Len(a) /\ a[i] = b[i]
        /\ k - 1 <= Len(a)
        /\ \/ Len(a) = k - 1
           \/ Len(a) >= k /\ a[k] < b[k]

(* the sign, the digits and the position of the point of a finite number  *)
(* other than 0                                                            *)
IsNegative(x) == IF x.t = "number" THEN x.n < 0 ELSE x.neg

DigitsOfNumber(x) ==
    IF x.t = "number" THEN StripTrailingZeros(NatToString(Abs(x.n))) ELSE x.d

PointOfNumber(x) == IF x.t = "number" THEN NumDigits(Abs(x.n)) ELSE x.n

(* a < b for two digit strings read as fractions 0.a and 0.b *)
DigitsLess(a, b) ==
    \E k \in 1..Len(b) :
        /\ \A i \in 1..(k - 1) : i <= Len(a) /\ CharAt(a, i) = CharAt(b, i)
        /\ \/ Len(a) = k - 1
           \/ Len(a) >= k /\ DigitValue(CharAt(a, k)) < DigitValue(CharAt(b, k))

(* 0.da * 10^na < 0.db * 10^nb *)
MagnitudeLess(da, na, db, nb) ==
    IF na # nb THEN na < nb ELSE DigitsLess(da, db)

(* x < y on finite numbers other than 0 *)
FiniteLess(x, y) ==
    IF IsNegative(x) # IsNegative(y) THEN IsNegative(x)
    ELSE IF IsNegative(x)
         THEN MagnitudeLess(DigitsOfNumber(y), PointOfNumber(y),
                            DigitsOfNumber(x), PointOfNumber(x))
    ELSE MagnitudeLess(DigitsOfNumber(x), PointOfNumber(x),
                       DigitsOfNumber(y), PointOfNumber(y))

(* x < y on numbers other than NaN *)
NumberLess(x, y) ==
    IF x.t = "number" /\ y.t = "number" THEN x.n < y.n
    ELSE IF x.t = "infinity" THEN x.neg /\ y # x
    ELSE IF y.t = "infinity" THEN ~y.neg
    ELSE IF x = Num(0) THEN ~IsNegative(y)
    ELSE IF y = Num(0) THEN IsNegative(x)
    ELSE FiniteLess(x, y)

(* the primitive an operand of a relational operator is turned into *)
ToPrimitive(v) ==
    IF v.t \in {"array", "function", "prototype", "object"} THEN Text(StringUnits(v)) ELSE v

(* x < y on numbers, false when one is NaN *)
NumberLessNoNaN(x, y) == x.t # "nan" /\ y.t # "nan" /\ NumberLess(x, y)

(* x <= y on numbers, false when one is NaN *)
NumberLessEqNoNaN(x, y) == x.t # "nan" /\ y.t # "nan" /\ (x = y \/ NumberLess(x, y))

(* pa < pb on primitives *)
PrimitiveLess(pa, pb) ==
    IF pa.t = "string" /\ pb.t = "string" THEN UnitsLess(UnitsOf(pa), UnitsOf(pb))
    ELSE NumberLessNoNaN(JsNumber(pa), JsNumber(pb))

(* pa <= pb on primitives *)
PrimitiveLessEq(pa, pb) ==
    IF pa.t = "string" /\ pb.t = "string" THEN ~UnitsLess(UnitsOf(pb), UnitsOf(pa))
    ELSE NumberLessEqNoNaN(JsNumber(pa), JsNumber(pb))

(* The relational operators of JavaScript: two strings are compared as     *)
(* strings, anything else as numbers, and NaN compares false.              *)
JsLess(a, b) == PrimitiveLess(ToPrimitive(a), ToPrimitive(b))

(* <= read as < *)
JsLessEqStrict(a, b) == PrimitiveLess(ToPrimitive(a), ToPrimitive(b))

JsLessEq(a, b) == PrimitiveLessEq(ToPrimitive(a), ToPrimitive(b))

(* a value with a string in the form of its code units *)
Canonical(v) == IF v.t = "string" THEN Text(UnitsOf(v)) ELSE v

(* a === b on primitives *)
StrictEquals(a, b) == a.t # "nan" /\ b.t # "nan" /\ Canonical(a) = Canonical(b)

-----------------------------------------------------------------------------
(* eligibilityService.js: the condition evaluator *)

(* lines 105-113 of normalizeValue on strValue and numValue *)
NormalizedText(strValue, numValue) ==
    IF strValue \in {Units("true"), Units("y"), Units("yes")} THEN Bool(TRUE)
    ELSE IF strValue \in {Units("false"), Units("n"), Units("no")} THEN Bool(FALSE)
    ELSE IF numValue.t # "nan" /\ strValue # <<>> THEN numValue
    ELSE Text(strValue)

(* normalizeValue with the string lower-cased and not trimmed *)
normalizeValueUntrimmed(value) ==
    IF value.t = "boolean" THEN value
    ELSE IF IsNumberType(value) THEN value
    ELSE NormalizedText(ToLowerCase(StringUnits(value)), JsNumber(value))

(* normalizeValue(value): booleans and numbers unchanged; the boolean      *)
(* tokens of the lower-cased trimmed string; a numeric string as a number; *)
(* otherwise the lower-cased trimmed string.                               *)
normalizeValue(value) ==
    IF value.t = "boolean" THEN value
    ELSE IF IsNumberType(value) THEN value
    ELSE NormalizedText(TrimUnits(ToLowerCase(StringUnits(value))), JsNumber(value))

(* the methods every plain object inherits from Object.prototype, by the  *)
(* name of the function each key holds                                     *)
ObjectPrototypeMethods ==
    [constructor |-> "Object",
     hasOwnProperty |-> "hasOwnProperty",
     isPrototypeOf |-> "isPrototypeOf",
     propertyIsEnumerable |-> "propertyIsEnumerable",
     toLocaleString |-> "toLocaleString",
     toString |-> "toString",
     valueOf |-> "valueOf",
     __defineGetter__ |-> "__defineGetter__",
     __defineSetter__ |-> "__defineSetter__",
     __lookupGetter__ |-> "__lookupGetter__",
     __lookupSetter__ |-> "__lookupSetter__"]

(* obj[key] for a key that is no own key of a plain object: the inherited  *)
(* method, Object.prototype for __proto__, undefined otherwise             *)
Inherited(key) ==
    IF key \in DOMAIN ObjectPrototypeMethods THEN Fn(ObjectPrototypeMethods[key])
    ELSE IF key = "__proto__" THEN ObjectPrototype
    ELSE Undefined

(* features[feature]: the record's own value, else what it inherits *)
FeatureOf(features, feature) ==
    IF feature \in DOMAIN features THEN features[feature] ELSE Inherited(feature)

(* featureValue === undefined || featureValue === null *)
IsMissing(featureValue) == featureValue.t \in {"undefined", "null"}

(* parts.map(v => v.trim()) *)
TrimAll(parts) == [i \in 1..Len(parts) |-> Text(TrimUnits(parts[i]))]

(* Array.isArray(v) ? v : String(v).split(',').map(v => v.trim()) *)
ValueList(normalizedValue) ==
    IF normalizedValue.t = "array" THEN normalizedValue.a
    ELSE TrimAll(SplitUnits(StringUnits(normalizedValue)))

AllowedValues(normalizedValue) == ValueList(normalizedValue)

(* the parts as they are split *)
Untrimmed(parts) == [i \in 1..Len(parts) |-> Text(parts[i])]

DisallowedValuesUntrimmed(normalizedValue) ==
    IF normalizedValue.t = "array" THEN normalizedValue.a
    ELSE Untrimmed(SplitUnits(StringUnits(normalizedValue)))

DisallowedValues(normalizedValue) == ValueList(normalizedValue)

(* list.includes(x) *)
Includes(list, x) == \E i \in 1..Len(list) : StrictEquals(list[i], x)

SupportedOperators == {"=", "==", "!=", "<>", ">", "<", ">=", "<=", "in", "not_in"}

(* the default branch of the switch: warn and let the condition pass *)
UnknownOperatorResult == TRUE

(* the switch on the operator, on the normalized values *)
SwitchOperator(operator, normalizedFeature, normalizedValue) ==
    CASE operator \in {"=", "=="} -> StrictEquals(normalizedFeature, normalizedValue)
      [] operator \in {"!=", "<>"} -> ~StrictEquals(normalizedFeature, normalizedValue)
      [] operator = ">" -> JsLess(normalizedValue, normalizedFeature)
      [] operator = "<" -> JsLess(normalizedFeature, normalizedValue)
      [] operator = ">=" -> JsLessEq(normalizedValue, normalizedFeature)
      [] operator = "<=" -> JsLessEq(normalizedFeature, normalizedValue)
      [] operator = "in" ->
           Includes(AllowedValues(normalizedValue), Text(StringUnits(normalizedFeature)))
      [] operator = "not_in" ->
           ~Includes(DisallowedValues(normalizedValue), Text(StringUnits(normalizedFeature)))
      [] OTHER -> UnknownOperatorResult

(* the guard on the feature value and the normalization of both sides *)
EvaluateOn(featureValue, operator, value) ==
    IF IsMissing(featureValue) THEN FALSE
    ELSE SwitchOperator(operator, normalizeValue(featureValue), normalizeValue(value))

evaluateCondition(features, feature, operator, value) ==
    EvaluateOn(FeatureOf(features, feature), operator, value)

-----------------------------------------------------------------------------
(* excelService.js: the policy data *)

Type(id, priority) == [type_id |-> id, priority |-> priority]

Req(id, feature, operator, value) ==
    [type_id |-> id, feature |-> feature, operator |-> operator, value |-> value]

(* excelData as loadExcelData builds it; only the two sheets the core reads *)
ExcelData(types, reqs) ==
    [t |-> "object", questionTypes |-> Arr(types), typeRequirements |-> Arr(reqs)]

(* getDefaultQuestionTypes(): type_id and priority of the built-in table *)
getDefaultQuestionTypes ==
    << Type("R_MAIN", 1), Type("R_DETAIL", 2), Type("R_DETAIL_SPECIFIC", 3),
       Type("R_INFER_REF", 4), Type("R_INFER_SUMMARY", 5), Type("R_INFER_BLANK", 6),
       Type("R_INFER_MEANING", 7), Type("R_GRAMMAR_USAGE", 8), Type("R_GRAMMAR_ERROR", 9),
       Type("R_VOCAB_SYN", 10), Type("R_VOCAB_ANT", 11), Type("R_VOCAB_DEF", 12),
       Type("R_VOCAB_CONTEXT", 13), Type("R_FLOW_IRRELEVANT", 14),
       Type("R_FLOW_SENTENCE", 15), Type("R_FLOW_PARAGRAPH", 16),
       Type("R_FLOW_INSERT", 17) >>

(* !x for the values excelData and its sheets can take (an array is truthy) *)
Falsy(x) == x.t \in {"undefined", "null"}

getQuestionTypes(data) ==
    IF Falsy(data) THEN getDefaultQuestionTypes
    ELSE IF Falsy(data.questionTypes) THEN getDefaultQuestionTypes
    ELSE data.questionTypes.a

(* seq.filter(keep), keep given as the set of indices kept *)
FilterIdx(seq, keep) ==
    LET idx == {i \in 1..Len(seq) : i \in keep}
        Rank(i) == Cardinality({j \in idx : j <= i})
    IN  [k \in 1..Cardinality(idx) |-> seq[CHOOSE i \in idx : Rank(i) = k]]

getTypeRequirements(data, typeId) ==
    IF Falsy(data) THEN <<>>
    ELSE IF Falsy(data.typeRequirements) THEN <<>>
    ELSE LET reqs == data.typeRequirements.a
         IN  FilterIdx(reqs, {i \in 1..Len(reqs) : reqs[i].type_id = typeId})

(* getDefaultTypeRequirements(): the built-in requirement table, which the *)
(* loader substitutes for a workbook without a TYPE_REQUIREMENTS sheet     *)
getDefaultTypeRequirements ==
    << Req("R_MAIN", "main_topic_count", ">=", Num(1)),
       Req("R_DETAIL", "explicit_facts", ">=", Num(2)),
       Req("R_INFER_SUMMARY", "has_conclusion", "=", Bool(TRUE)),
       Req("R_INFER_MEANING", "implicit_meaning", "=", Bool(TRUE)),
       Req("R_FLOW_SENTENCE", "has_logical_connectors", "=", Bool(TRUE)),
       Req("R_FLOW_SENTENCE", "has_clear_progression", "=", Bool(TRUE)),
       Req("R_FLOW_PARAGRAPH", "has_logical_connectors", "=", Bool(TRUE)),
       Req("R_FLOW_INSERT", "has_clear_progression", "=", Bool(TRUE)) >>

-----------------------------------------------------------------------------
(* eligibilityService.js: first filter *)

(* requirements.some(...) in place of requirements.every(...) *)
AllRequirementsMetSome(requirements, features) ==
    \E i \in 1..Len(requirements) :
        evaluateCondition(features, requirements[i].feature,
                          requirements[i].operator, requirements[i].value)

(* requirements.every(req => evaluateCondition(textFeatures, ...)) *)
AllRequirementsMet(requirements, features) ==
    \A i \in 1..Len(requirements) :
        evaluateCondition(features, requirements[i].feature,
                          requirements[i].operator, requirements[i].value)

(* the body of the loop: the value stored in eligibility[typeId] *)
IsEligible(requirements, features) ==
    IF Len(requirements) = 0 THEN TRUE
    ELSE AllRequirementsMet(requirements, features)

(* eligibility[typeId] = v on the plain object of line 21: assigning a     *)
(* boolean to __proto__ goes to the prototype setter, which ignores it     *)
SetKey(map, key, v) ==
    IF key = "__proto__" THEN map
    ELSE [k \in (DOMAIN map) \cup {key} |-> IF k = key THEN v ELSE map[k]]

EmptyMap == [k \in {} |-> FALSE]

(* The objects a call reads and writes, in the order they come to exist:   *)
(* the array getQuestionTypes returns (excelData.questionTypes itself when *)
(* the policy data has one), the attribute record, the eligibility map,    *)
(* and after them every array the call makes. filter, map and Array.from   *)
(* make a new array; sort() puts the array it is called on in order where  *)
(* it stands; obj[key] = v writes to the object the name is bound to       *)
TypesRef == 1

FeaturesRef == 2

EligibilityRef == 3

(* a new array or object, after the ones there are *)
Made(objs, content) == Append(objs, content)

(* the write goes to the attribute record *)
SetKeyAtFeatures(objs, ref, key, v) ==
    [objs EXCEPT ![FeaturesRef] =
        [k \in (DOMAIN objs[FeaturesRef]) \cup {key} |->
            IF k = key THEN Bool(v) ELSE objs[FeaturesRef][k]]]

(* objs[ref][key] = v *)
SetKeyAt(objs, ref, key, v) == [objs EXCEPT ![ref] = SetKey(objs[ref], key, v)]

(* the elements filtered out are also taken out of the array filtered *)
FilterInPlace(objs, ref, keep) ==
    Made([objs EXCEPT ![ref] = FilterIdx(objs[ref], keep)], FilterIdx(objs[ref], keep))

(* objs[ref].filter(keep): a new array; the array filtered stays as it is *)
Filter(objs, ref, keep) == Made(objs, FilterIdx(objs[ref], keep))

(* for (const type of questionTypes) { ... eligibility[typeId] = ... } on  *)
(* the objects of the call, from the i-th type on                          *)
RECURSIVE EligibilityLoop(_, _, _)
EligibilityLoop(data, objs, i) ==
    IF i > Len(objs[TypesRef]) THEN objs
    ELSE EligibilityLoop(
             data,
             SetKeyAt(objs, EligibilityRef, objs[TypesRef][i].type_id,
                      IsEligible(getTypeRequirements(data, objs[TypesRef][i].type_id),
                                 objs[FeaturesRef])),
             i + 1)

(* the objects after calculateEligibility(data, features); the map is the  *)
(* object of line 21, const eligibility = {}                               *)
CalculateEligibilityRun(data, features) ==
    EligibilityLoop(data, <<getQuestionTypes(data), features, EmptyMap>>, 1)

calculateEligibility(data, features) ==
    CalculateEligibilityRun(data, features)[EligibilityRef]

-----------------------------------------------------------------------------
(* eligibilityService.js: second filter *)

DefaultMaxTypes == 5

Options(maxTypes) == [t |-> "object", maxTypes |-> maxTypes]

(* options = {} and const { maxTypes = 5 } = options: the default stands   *)
(* in for an undefined argument and for an undefined property only         *)
MaxTypesOf(opts) ==
    IF opts.t = "undefined" THEN Num(DefaultMaxTypes)
    ELSE IF opts.maxTypes.t = "undefined" THEN Num(DefaultMaxTypes)
    ELSE opts.maxTypes

(* const { maxTypes = 5 } = options with options null: the default         *)
(* parameter value {} stands in for undefined only, and destructuring null *)
(* raises a TypeError                                                      *)
DestructuringThrows(opts) == opts.t = "null"

(* eligibility[typeId] read as a condition: the map's own boolean, else    *)
(* what the plain object inherits, which is truthy unless undefined        *)
EligibleIn(elig, typeId) ==
    IF typeId \in DOMAIN elig THEN elig[typeId] ELSE Inherited(typeId) # Undefined

(* a sort that puts equal keys in the reverse of their order *)
StableSortTiesReversed(seq, keys) ==
    LET n == Len(seq)
        Before(i, j) == keys[i] < keys[j] \/ (keys[i] = keys[j] /\ i > j)
        Pos(i) == 1 + Cardinality({j \in 1..n : Before(j, i)})
    IN  [k \in 1..n |-> seq[CHOOSE i \in 1..n : Pos(i) = k]]

(* array.sort(cmp) for a comparator that subtracts keys: a stable sort, so *)
(* equal keys keep their order                                             *)
StableSort(seq, keys) ==
    LET n == Len(seq)
        Before(i, j) == keys[i] < keys[j] \/ (keys[i] = keys[j] /\ i < j)
        Pos(i) == 1 + Cardinality({j \in 1..n : Before(j, i)})
    IN  [k \in 1..n |-> seq[CHOOSE i \in 1..n : Pos(i) = k]]

(* types.sort((a, b) => a.priority - b.priority) *)
SortByPriority(types) ==
    StableSort(types, [i \in 1..Len(types) |-> types[i].priority])

IsFlow(typeId) == StartsWith(typeId, "R_FLOW_")

IsInfer(typeId) == StartsWith(typeId, "R_INFER_")

(* the indices of an array whose type is no flow type *)
NotFlow(types) == {i \in 1..Len(types) : ~IsFlow(types[i].type_id)}

(* the indices of an array whose type is an inference type *)
Infer(types) == {i \in 1..Len(types) : IsInfer(types[i].type_id)}

(* the indices of an array whose type is no inference type or has the id *)
NotInferOr(types, typeId) ==
    {i \in 1..Len(types) : ~IsInfer(types[i].type_id) \/ types[i].type_id = typeId}

(* the objects of the call and the array the name eligibleTypes is bound to *)
Eligible(objs, e) == [objs |-> objs, eligibleTypes |-> e]

(* objs[ref].sort((a, b) => a.priority - b.priority) *)
SortAt(objs, ref) == [objs EXCEPT ![ref] = SortByPriority(objs[ref])]

(* lines 143-145: eligibleTypes (at e) filtered to the types that are no   *)
(* inference type or bestInfer, the first of inferTypes (at f)             *)
KeepBestInfer(objs, e, f) ==
    Eligible(Filter(objs, e, NotInferOr(objs[e], objs[f][1].type_id)), Len(objs) + 1)

(* lines 140-146 with inferTypes left in the order it has *)
CapInferUnsorted(objs, e, f) ==
    IF Len(objs[f]) > 1 THEN KeepBestInfer(objs, e, f) ELSE Eligible(objs, e)

(* lines 140-146: inferTypes (at f) is sorted where it stands *)
CapInfer(objs, e, f) ==
    IF Len(objs[f]) > 1 THEN KeepBestInfer(SortAt(objs, f), e, f) ELSE Eligible(objs, e)

(* lines 139-146 with the sort left out *)
InferTypesUnsorted(objs, e) == CapInferUnsorted(Filter(objs, e, Infer(objs[e])), e, Len(objs) + 1)

(* lines 139-146: inferTypes is a new array filtered from eligibleTypes *)
InferTypes(objs, e) == CapInfer(Filter(objs, e, Infer(objs[e])), e, Len(objs) + 1)

(* the inference cap alone: the R_FLOW_ filter's result is not kept *)
ApplyTonePolicyKeepFlow(objs, e) == InferTypes(objs, e)

(* the inference type kept is the first of inferTypes, which is not sorted *)
ApplyTonePolicyFirstInfer(objs, e) ==
    InferTypesUnsorted(Filter(objs, e, NotFlow(objs[e])), Len(objs) + 1)

(* step 2, the body of the tone === 'evaluative' branch, with              *)
(* eligibleTypes at e                                                      *)
ApplyTonePolicy(objs, e) == InferTypes(Filter(objs, e, NotFlow(objs[e])), Len(objs) + 1)

basicTypes == <<"R_MAIN", "R_DETAIL">>

Range(seq) == {seq[i] : i \in 1..Len(seq)}

(* array.push(x): no check for an element already there *)
SetAddNoDedupe(set, x) == Append(set, x)

(* finalTypeSet.add(x): a Set keeps insertion order and ignores a repeat *)
SetAdd(set, x) == IF x \in Range(set) THEN set ELSE Append(set, x)

(* the mandatory types are not placed first *)
AddBasicTypesSkipped(elig) == <<>>

(* the mandatory types are placed without reading the eligibility map *)
AddBasicTypesUnconditional(elig) == basicTypes

(* step 3: for (const basicTypeId of basicTypes) if (eligibility[...]) add *)
AddBasicTypes(elig) ==
    LET first == IF EligibleIn(elig, basicTypes[1]) THEN SetAdd(<<>>, basicTypes[1])
                 ELSE <<>>
    IN  IF EligibleIn(elig, basicTypes[2]) THEN SetAdd(first, basicTypes[2]) ELSE first

(* the fill loop with the break tested as size > maxTypes *)
RECURSIVE FillLoopOneMore(_, _, _, _)
FillLoopOneMore(sortedTypes, i, finalTypeSet, maxTypes) ==
    IF i > Len(sortedTypes) THEN finalTypeSet
    ELSE IF JsLess(maxTypes, Num(Len(finalTypeSet))) THEN finalTypeSet
    ELSE FillLoopOneMore(sortedTypes, i + 1,
                         SetAdd(finalTypeSet, sortedTypes[i].type_id), maxTypes)

(* step 4: for (const type of sortedTypes) { if (size >= maxTypes) break; add } *)
RECURSIVE FillLoop(_, _, _, _)
FillLoop(sortedTypes, i, finalTypeSet, maxTypes) ==
    IF i > Len(sortedTypes) THEN finalTypeSet
    ELSE IF JsLessEq(maxTypes, Num(Len(finalTypeSet))) THEN finalTypeSet
    ELSE FillLoop(sortedTypes, i + 1, SetAdd(finalTypeSet, sortedTypes[i].type_id),
                  maxTypes)

(* typeMap.get(id): new Map(questionTypes.map(t => [t.type_id, t])) keeps  *)
(* the last entry of a repeated type_id                                    *)
HasType(questionTypes, id) == \E i \in 1..Len(questionTypes) : questionTypes[i].type_id = id

TypeMapGet(questionTypes, id) ==
    LET idx == {i \in 1..Len(questionTypes) : questionTypes[i].type_id = id}
    IN  questionTypes[CHOOSE i \in idx : \A j \in idx : j <= i]

(* typeA?.priority || 99 *)
SortKey(questionTypes, id) ==
    IF ~HasType(questionTypes, id) THEN 99
    ELSE IF TypeMapGet(questionTypes, id).priority = 0 THEN 99
    ELSE TypeMapGet(questionTypes, id).priority

(* the indices of an array whose type the eligibility map marks *)
Passing(types, elig) == {i \in 1..Len(types) : EligibleIn(elig, types[i].type_id)}

(* the indices of an array whose type is not in the set *)
NotIn(types, set) == {i \in 1..Len(types) : types[i].type_id \notin Range(set)}

(* line 174: result (at r) sorted where it stands by the priority the      *)
(* catalog has for each id                                                 *)
SortResult(objs, r) ==
    [objs EXCEPT ![r] =
        StableSort(objs[r], [i \in 1..Len(objs[r]) |-> SortKey(objs[TypesRef], objs[r][i])])]

(* lines 165-178 with sortedTypes the array made last: the loop fills the  *)
(* Set, Array.from makes a new array of it, which is sorted and returned   *)
FillAndSort(objs, basicSet, maxTypes) ==
    SortResult(Made(objs, FillLoop(objs[Len(objs)], 1, basicSet, maxTypes)), Len(objs) + 1)

(* lines 150-178 with eligibleTypes at e: sortedTypes is a new array       *)
(* filtered from eligibleTypes and sorted where it stands                  *)
PlaceAndFill(objs, e, basicSet, maxTypes) ==
    FillAndSort(SortAt(Filter(objs, e, NotIn(objs[e], basicSet)), Len(objs) + 1),
                basicSet, maxTypes)

(* steps 3 to 5 after step 2 *)
AfterPolicy(policy, maxTypes) ==
    PlaceAndFill(policy.objs, policy.eligibleTypes,
                 AddBasicTypes(policy.objs[EligibilityRef]), maxTypes)

(* lines 134-178 with eligibleTypes at e *)
PolicyAndFill(objs, e, maxTypes) ==
    IF StrictEquals(FeatureOf(objs[FeaturesRef], "tone"), Str("evaluative"))
    THEN AfterPolicy(ApplyTonePolicy(objs, e), maxTypes)
    ELSE AfterPolicy(Eligible(objs, e), maxTypes)

(* the objects after decideFinalTypes(data, features, elig, opts): the     *)
(* array returned is the one made last                                     *)
DecideFinalTypesRun(data, features, elig, opts) ==
    PolicyAndFill(Filter(<<getQuestionTypes(data), features, elig>>, TypesRef,
                         Passing(getQuestionTypes(data), elig)),
                  EligibilityRef + 1, MaxTypesOf(opts))

(* the value a call returns: the array its objects end with *)
Returns(objs) == objs[Len(objs)]

decideFinalTypes(data, features, elig, opts) ==
    Returns(DecideFinalTypesRun(data, features, elig, opts))

-----------------------------------------------------------------------------
(* eligibilityService.js: determineQuestionTypes *)

(* { type_id: typeId }, the record returned for an id without catalog entry *)
Stub(typeId) == [type_id |-> typeId]

(* the details taken from the catalog by position in the list *)
TypeDetailsByPosition(questionTypes, final) ==
    [i \in 1..Len(final) |->
        IF i <= Len(questionTypes) THEN questionTypes[i] ELSE Stub(final[i])]

(* finalTypes.map(typeId => typeMap.get(typeId) || { type_id: typeId }) *)
TypeDetails(questionTypes, final) ==
    [i \in 1..Len(final) |->
        IF HasType(questionTypes, final[i]) THEN TypeMapGet(questionTypes, final[i])
        ELSE Stub(final[i])]

(* excelData after a call that left the array of getQuestionTypes as       *)
(* questionTypes; the default catalog is a new array at every call and is  *)
(* not part of excelData                                                   *)
ExcelDataAfter(data, questionTypes) ==
    IF Falsy(data) THEN data
    ELSE IF Falsy(data.questionTypes) THEN data
    ELSE [data EXCEPT !.questionTypes = Arr(questionTypes)]

-----------------------------------------------------------------------------
(* Inputs explored *)

SeqsUpTo(S, n) == UNION {[1..k -> S] : k \in 0..n}

FeatureValues ==
    { Undefined, Null, Bool(TRUE), Bool(FALSE), Num(0), Num(2), Num(3), Num(5), Dec(25, -1),
      Str("Y"), Str(" yes "), Str("No"), Str("3"), Str("03"), Str(" 5"), Str("1.0"),
      Str("3.5"), Str("Infinity"), Str("evaluative"), Str("Factual "), Str(""), Str("a,b"),
      Text(<<201, 99, 111, 108, 101>>), Str("2e-324"), Text(<<5760, 51>>), Text(<<7305>>), Text(<<48, 120, 385>>) }

RuleValues ==
    { Undefined, Null, Bool(TRUE), Bool(FALSE), Num(0), Num(3),
      Str("Y"), Str("no"), Str("3"), Str("03,5"), Str("3, 5"), Str("1.0"), Str("1.0,2"),
      Str("infinity"), Str("Evaluative"),
      Str("factual, evaluative"), Str("y,n"), Str("true"), Str(""), Str("a,b"),
      Text(<<233, 67, 79, 76, 69>>), Text(<<5760, 97, 44, 98>>), Text(<<7306>>), Str("0x3"),
      Arr(<<Str("factual"), Str("evaluative")>>), Arr(<<Num(3), Num(5)>>),
      Arr(<<Str("Y")>>), Arr(<<>>) }

Operators == SupportedOperators \cup {"IN", "=>", "contains"}

FeatureNames == {"score", "tone"}

(* the feature a condition names: one the record may hold, one it never    *)
(* holds, and one that no record holds and every object inherits           *)
CondFeatureNames == FeatureNames \cup {"constructor"}

(* a type id that is no entry of a plain object and is found on all of them *)
ForeignTypeId == "__proto__"

TypeIds == {"R_MAIN", "R_DETAIL", "R_INFER_REF", "R_INFER_BLANK", "R_FLOW_INSERT"}

Priorities == 0..MaxPriority

Catalogs == SeqsUpTo({Type(id, p) : id \in TypeIds, p \in Priorities}, MaxCatalog)

(* catalogs with a type of the foreign id *)
ForeignCatalogs ==
    { <<Type(ForeignTypeId, 1)>>,
      <<Type("R_MAIN", 1), Type(ForeignTypeId, 2)>>,
      <<Type(ForeignTypeId, 1), Type("R_INFER_REF", 1)>> }

CatalogIds(types) == {types[i].type_id : i \in 1..Len(types)}

ToneValues == {Str("evaluative"), Str("factual")}

(* policy tables and records for calculateEligibility *)
EligTypeIds == {"R_MAIN", "R_DETAIL"}

EligCatalogs == SeqsUpTo({Type(id, 1) : id \in EligTypeIds}, MaxCatalog)

ReqPool ==
    { Req(id, c[1], c[2], c[3]) :
        id \in EligTypeIds,
        c \in { <<"score", ">=", Num(3)>>,
                <<"tone", "=", Str("Evaluative")>>,
                <<"tone", "in", Str("factual, evaluative")>>,
                <<"score", "=>", Num(3)>> } }

RequirementTables == SeqsUpTo(ReqPool, MaxReqs)

Records ==
    { [f \in FeatureNames |-> IF f = "score" THEN s ELSE t] :
        s \in {Undefined, Null, Num(2), Num(5)},
        t \in {Undefined, Str("evaluative"), Str("factual")} }

NoExcel == ExcelData(<<>>, <<>>)

(* policy data as the core may receive it: either list present (empty      *)
(* included) or absent, or no policy data at all                           *)
PolicyData ==
    { ExcelData(types, reqs) : types \in EligCatalogs, reqs \in RequirementTables }
    \cup { ExcelData(types, reqs) :
             types \in { <<Type(ForeignTypeId, 1)>>,
                         <<Type("R_MAIN", 1), Type(ForeignTypeId, 1)>> },
             reqs \in { <<>>,
                        <<Req(ForeignTypeId, "score", ">=", Num(3))>>,
                        <<Req(ForeignTypeId, "score", "=>", Num(3))>>,
                        <<Req(ForeignTypeId, "score", ">=", Num(3)),
                          Req("R_MAIN", "tone", "=", Str("Evaluative"))>> } }
    \cup { [t |-> "object", questionTypes |-> Arr(types), typeRequirements |-> Undefined] :
             types \in EligCatalogs }
    \cup { [t |-> "object", questionTypes |-> Undefined, typeRequirements |-> reqs] :
             reqs \in {Arr(r) : r \in SeqsUpTo(ReqPool, 1)} \cup {Undefined} }
    \cup {Null}

-----------------------------------------------------------------------------
(* The question service and the calendar server before any request *)

(* questionService.js as loaded: let openaiClient = null, no call running *)
QuestionIdle ==
    /\ typeIds = <<>>
    /\ genOptions = Undefined
    /\ apiKey = FALSE
    /\ openaiClient = FALSE
    /\ gpc = "idle"
    /\ typeIndex = 0
    /\ attempt = 0
    /\ lastError = Null
    /\ responses = <<>>
    /\ settled = Null
    /\ questions = <<>>
    /\ errors = <<>>
    /\ summary = Null

(* the calendar server with no request in flight and nothing stored *)
CalendarIdle ==
    /\ backend = "jsonbin"
    /\ store = <<>>
    /\ handlers = <<>>

-----------------------------------------------------------------------------
(* A call of evaluateCondition(textFeatures, feature, operator, value) *)

InitCond ==
    /\ QuestionIdle
    /\ CalendarIdle
    /\ pc = "call"
    /\ \E v \in FeatureValues : textFeatures = [f \in {"score"} |-> v]
    /\ \E f \in CondFeatureNames, op \in Operators, v \in RuleValues :
          cond = [feature |-> f, operator |-> op, value |-> v]
    /\ condResult = FALSE
    /\ typeDetails = <<>>
    /\ results = {}
    /\ excelData = NoExcel
    /\ eligibility = EmptyMap
    /\ options = Undefined
    /\ finalTypes = <<>>

CallEvaluateCondition ==
    /\ pc = "call"
    /\ condResult' = evaluateCondition(textFeatures, cond.feature, cond.operator, cond.value)
    /\ pc' = "done"
    /\ UNCHANGED <<questionVars, calendarVars>>
    /\ UNCHANGED <<excelData, textFeatures, eligibility, options, finalTypes, cond,
                 typeDetails, results>>

NextCond == CallEvaluateCondition

SpecCond == InitCond /\ [][NextCond]_vars

-----------------------------------------------------------------------------
(* A call of decideFinalTypes(excelData, textFeatures, eligibility, options) *)

InitFinal ==
    /\ QuestionIdle
    /\ CalendarIdle
    /\ pc = "call"
    /\ \E types \in Catalogs \cup ForeignCatalogs :
          /\ excelData = ExcelData(types, <<>>)
          /\ eligibility \in
                [(CatalogIds(types) \cup Range(basicTypes)) \ {ForeignTypeId} -> BOOLEAN]
    /\ \E tone \in ToneValues : textFeatures = [f \in {"tone"} |-> tone]
    /\ \E n \in 1..MaxCapacity : options = Options(Num(n))
    /\ finalTypes = <<>>
    /\ cond = [feature |-> "", operator |-> "", value |-> Undefined]
    /\ condResult = FALSE
    /\ typeDetails = <<>>
    /\ results = {}

(* the call has returned: the list is the array its objects end with, and  *)
(* the caller's objects are as the call left them                          *)
DecideFinalTypesReturned(objs) ==
    /\ finalTypes' = Returns(objs)
    /\ excelData' = ExcelDataAfter(excelData, objs[TypesRef])
    /\ textFeatures' = objs[FeaturesRef]
    /\ eligibility' = objs[EligibilityRef]

CallDecideFinalTypes ==
    /\ pc = "call"
    /\ IF DestructuringThrows(options)
       THEN /\ pc' = "threw"
            /\ UNCHANGED <<finalTypes, excelData, textFeatures, eligibility>>
       ELSE /\ DecideFinalTypesReturned(
                   DecideFinalTypesRun(excelData, textFeatures, eligibility, options))
            /\ pc' = "done"
    /\ UNCHANGED <<questionVars, calendarVars>>
    /\ UNCHANGED <<options, cond, condResult, typeDetails, results>>

NextFinal == CallDecideFinalTypes

SpecFinal == InitFinal /\ [][NextFinal]_vars

-----------------------------------------------------------------------------
(* A call of decideFinalTypes on a catalog of five types: the two          *)
(* mandatory types, two inference types and a flow type in every order,    *)
(* and the same with one entry replaced, with every eligibility map and    *)
(* capacities from 1 up to the number of types and capacities that are no  *)
(* positive integer                                                        *)

ScenarioTypes ==
    << Type("R_MAIN", 1), Type("R_DETAIL", 2), Type("R_INFER_A", 5), Type("R_INFER_B", 3),
       Type("R_FLOW_X", 4) >>

ReplacementTypes ==
    { Type("R_INFER_A", 3), Type("R_INFER_B", 5), Type("R_INFER_B", 0), Type("R_INFER_C", 1),
      Type("R_FLOW_X", 0), Type("R_VOCAB_SYN", 1) }

(* the orders of n things *)
Orders(n) == {order \in [1..n -> 1..n] : \A i, j \in 1..n : order[i] = order[j] => i = j}

PolicyCatalogs ==
    { [i \in 1..Len(ScenarioTypes) |-> ScenarioTypes[order[i]]] :
        order \in Orders(Len(ScenarioTypes)) }
    \cup { [ScenarioTypes EXCEPT ![i] = type] :
             i \in 1..Len(ScenarioTypes), type \in ReplacementTypes }

PolicyCapacities ==
    {Num(n) : n \in 0..Len(ScenarioTypes)}
        \cup {Undefined, Null, Dec(25, -1), Str("2"), Text(<<48, 120, 385>>)}

InitPolicy ==
    /\ QuestionIdle
    /\ CalendarIdle
    /\ pc = "call"
    /\ \E types \in PolicyCatalogs :
          /\ excelData = ExcelData(types, <<>>)
          /\ eligibility \in [CatalogIds(types) \cup Range(basicTypes) -> BOOLEAN]
    /\ \E tone \in ToneValues : textFeatures = [f \in {"tone"} |-> tone]
    /\ \E maxTypes \in PolicyCapacities : options = Options(maxTypes)
    /\ finalTypes = <<>>
    /\ cond = [feature |-> "", operator |-> "", value |-> Undefined]
    /\ condResult = FALSE
    /\ typeDetails = <<>>
    /\ results = {}

NextPolicy == CallDecideFinalTypes

SpecPolicy == InitPolicy /\ [][NextPolicy]_vars

-----------------------------------------------------------------------------
(* A call of decideFinalTypes with the options argument as a caller may    *)
(* pass it: left out, null, without maxTypes, or with a maxTypes that is   *)
(* no positive number                                                      *)

OptionValues ==
    { Undefined, Null, Options(Undefined), Options(Null), Options(Num(0)),
      Options(Num(-1)), Options(Str("many")), Options(Str("1")),
      Options(Num(DefaultMaxTypes)) }
    \cup {Options(Num(n)) : n \in 1..MaxCapacity}

OptionCatalogs ==
    SeqsUpTo({Type("R_MAIN", 1), Type("R_INFER_REF", 1), Type("R_VOCAB_SYN", 2)},
             MaxCatalog)

InitOptions ==
    /\ QuestionIdle
    /\ CalendarIdle
    /\ pc = "call"
    /\ \E types \in OptionCatalogs :
          /\ excelData = ExcelData(types, <<>>)
          /\ eligibility \in [CatalogIds(types) \cup Range(basicTypes) -> BOOLEAN]
    /\ \E tone \in ToneValues : textFeatures = [f \in {"tone"} |-> tone]
    /\ options \in OptionValues
    /\ finalTypes = <<>>
    /\ cond = [feature |-> "", operator |-> "", value |-> Undefined]
    /\ condResult = FALSE
    /\ typeDetails = <<>>
    /\ results = {}

NextOptions == CallDecideFinalTypes

SpecOptions == InitOptions /\ [][NextOptions]_vars

-----------------------------------------------------------------------------
(* Calls of the three functions in any order and number on one policy data *)
(* object, one attribute record and one options object, as the server      *)
(* makes them: excelData is loaded once and handed to every request        *)

CallCatalogs ==
    SeqsUpTo({Type("R_MAIN", 2), Type("R_INFER_REF", 1), Type("R_INFER_REF", 2),
              Type("R_INFER_BLANK", 1)},
             MaxCatalog)
    \cup { <<Type(ForeignTypeId, 1)>>, <<Type("R_MAIN", 2), Type(ForeignTypeId, 1)>> }

CallRequirementTables ==
    { <<>>,
      <<Req("R_INFER_REF", "score", ">=", Num(3))>>,
      <<Req("R_MAIN", "score", "<", Num(3))>>,
      <<Req("R_INFER_REF", "score", ">=", Num(3)), Req("R_MAIN", "score", "<", Num(3))>>,
      <<Req(ForeignTypeId, "score", "<", Num(3))>> }

CallRecords ==
    { [f \in FeatureNames |-> IF f = "score" THEN score ELSE tone] :
        score \in {Num(2), Num(5)}, tone \in ToneValues }

InitCalls ==
    /\ QuestionIdle
    /\ CalendarIdle
    /\ pc = "call"
    /\ \E types \in CallCatalogs, reqs \in CallRequirementTables :
          excelData = ExcelData(types, reqs)
    /\ textFeatures \in CallRecords
    /\ \E n \in 1..MaxCapacity : options = Options(Num(n))
    /\ eligibility = EmptyMap
    /\ finalTypes = <<>>
    /\ cond = [feature |-> "", operator |-> "", value |-> Undefined]
    /\ condResult = FALSE
    /\ typeDetails = <<>>
    /\ results = {}

(* one returned call: the function, the eligibility map and options it was *)
(* given besides excelData and textFeatures, and the value it returned     *)
Returned(fn, elig, opts, out) == [fn |-> fn, elig |-> elig, opts |-> opts, out |-> out]

(* calculateEligibility has returned: the map is the object of line 21,   *)
(* and the caller's objects are as the call left them                      *)
CalculateEligibilityReturned(objs) ==
    /\ eligibility' = objs[EligibilityRef]
    /\ excelData' = ExcelDataAfter(excelData, objs[TypesRef])
    /\ textFeatures' = objs[FeaturesRef]

(* eligibility = calculateEligibility(excelData, textFeatures) *)
RepeatCalculateEligibility ==
    /\ CalculateEligibilityReturned(CalculateEligibilityRun(excelData, textFeatures))
    /\ results' = results \cup
                     {Returned("calculateEligibility", EmptyMap, Undefined, eligibility')}
    /\ pc' = "calculateEligibility"
    /\ UNCHANGED <<questionVars, calendarVars>>
    /\ UNCHANGED <<options, finalTypes, cond, condResult, typeDetails>>

(* finalTypes = decideFinalTypes(excelData, textFeatures, eligibility, options) *)
RepeatDecideFinalTypes ==
    /\ DecideFinalTypesReturned(
           DecideFinalTypesRun(excelData, textFeatures, eligibility, options))
    /\ results' = results \cup
                     {Returned("decideFinalTypes", eligibility, options, finalTypes')}
    /\ pc' = "decideFinalTypes"
    /\ UNCHANGED <<questionVars, calendarVars>>
    /\ UNCHANGED <<options, cond, condResult, typeDetails>>

(* lines 195-200 on the objects the first filter left: the second filter   *)
(* takes excelData, the record and the map of the first; typeDetails is    *)
(* mapped from the list with the catalog as the second filter left it      *)
SecondFilterReturned(objs) ==
    /\ DecideFinalTypesReturned(objs)
    /\ typeDetails' = TypeDetails(objs[TypesRef], Returns(objs))

(* determineQuestionTypes(excelData, textFeatures, options): the first     *)
(* filter, the second filter on its map, the details of the list, and the  *)
(* three returned as { eligibility, finalTypes, typeDetails }              *)
DetermineQuestionTypesReturned(objs) ==
    SecondFilterReturned(
        DecideFinalTypesRun(ExcelDataAfter(excelData, objs[TypesRef]), objs[FeaturesRef],
                            objs[EligibilityRef], options))

RepeatDetermineQuestionTypes ==
    /\ DetermineQuestionTypesReturned(CalculateEligibilityRun(excelData, textFeatures))
    /\ results' = results \cup
                     {Returned("determineQuestionTypes", EmptyMap, options,
                               [eligibility |-> eligibility',
                                finalTypes |-> finalTypes',
                                typeDetails |-> typeDetails'])}
    /\ pc' = "determineQuestionTypes"
    /\ UNCHANGED <<questionVars, calendarVars>>
    /\ UNCHANGED <<options, cond, condResult>>

NextCalls ==
    \/ RepeatCalculateEligibility
    \/ RepeatDecideFinalTypes
    \/ RepeatDetermineQuestionTypes

SpecCalls == InitCalls /\ [][NextCalls]_vars

-----------------------------------------------------------------------------
(* A call of calculateEligibility for one type whose only requirement is a *)
(* threshold: score >= v                                                   *)

Thresholds == {0, 1, 3}

ThresholdRecords ==
    {EmptyMap} \cup {[f \in {"score"} |-> v] : v \in FeatureValues}

InitThreshold ==
    /\ QuestionIdle
    /\ CalendarIdle
    /\ pc = "call"
    /\ \E id \in EligTypeIds \cup {ForeignTypeId}, v \in Thresholds :
          excelData = ExcelData(<<Type(id, 1)>>, <<Req(id, "score", ">=", Num(v))>>)
    /\ textFeatures \in ThresholdRecords
    /\ eligibility = EmptyMap
    /\ options = Undefined
    /\ finalTypes = <<>>
    /\ cond = [feature |-> "", operator |-> "", value |-> Undefined]
    /\ condResult = FALSE
    /\ typeDetails = <<>>
    /\ results = {}

-----------------------------------------------------------------------------
(* A call of calculateEligibility(excelData, textFeatures) *)

InitElig ==
    /\ QuestionIdle
    /\ CalendarIdle
    /\ pc = "call"
    /\ excelData \in PolicyData
    /\ textFeatures \in Records
    /\ eligibility = EmptyMap
    /\ options = Undefined
    /\ finalTypes = <<>>
    /\ cond = [feature |-> "", operator |-> "", value |-> Undefined]
    /\ condResult = FALSE
    /\ typeDetails = <<>>
    /\ results = {}

CallCalculateEligibility ==
    /\ pc = "call"
    /\ CalculateEligibilityReturned(CalculateEligibilityRun(excelData, textFeatures))
    /\ pc' = "done"
    /\ UNCHANGED <<questionVars, calendarVars>>
    /\ UNCHANGED <<options, finalTypes, cond, condResult, typeDetails, results>>

NextElig == CallCalculateEligibility

SpecElig == InitElig /\ [][NextElig]_vars

NextThreshold == CallCalculateEligibility

SpecThreshold == InitThreshold /\ [][NextThreshold]_vars

-----------------------------------------------------------------------------
(* questionService.js: generateQuestions and generateQuestionByType        *)
(* Messages of thrown errors are written in English here.                  *)

DefaultMaxRetries == 2

GenOptions(maxRetries) == [t |-> "object", maxRetries |-> maxRetries]

(* options = {} and const { maxRetries = 2 } = options, for options that   *)
(* are not null                                                            *)
MaxRetriesOf(opts) ==
    IF opts.t = "undefined" THEN Num(DefaultMaxRetries)
    ELSE IF opts.maxRetries.t = "undefined" THEN Num(DefaultMaxRetries)
    ELSE opts.maxRetries

(* const { maxRetries = 2, model = 'gpt-4o-mini' } = options throws a      *)
(* TypeError for null: the default {} stands in for undefined only         *)
OptionsThrow(opts) == opts.t = "null"

(* A number held as Decimal is the double q * 2^k nearest to its decimal. *)
BinaryOf(x) == NearestDouble(DigitSeq(x.d), x.n)

NumberOfBig(neg, big, scale) ==
    IF big = <<>> THEN Num(0)
    ELSE NumberOfDigits(neg, DigitString(BigDigits(big)), BigDigitCount(big) + scale)

(* (mantissa + one) * five * 10^scale with the sign of the number, rounded *)
(* to a double                                                             *)
SumWithOne(neg, mantissa, one, five, scale) ==
    IF ~neg THEN NumberOfBig(FALSE, BigMul(BigAdd(mantissa, one), five), scale)
    ELSE IF BigLess(one, mantissa)
    THEN NumberOfBig(TRUE, BigMul(BigSub(mantissa, one), five), scale)
    ELSE NumberOfBig(FALSE, BigMul(BigSub(one, mantissa), five), scale)

(* q * 2^k + 1: for k below 0 it is (q + 2^-k) * 5^-k * 10^k *)
BinaryPlusOne(neg, r) ==
    IF r.k >= 0 THEN SumWithOne(neg, BigMul(r.q, BigPow(2, r.k)), <<1>>, <<1>>, 0)
    ELSE SumWithOne(neg, r.q, BigPow(2, 0 - r.k), BigPow(5, 0 - r.k), r.k)

(* x + 1 on numbers: beyond 10^17 in size the sum rounds to x, below       *)
(* 10^-17 to 1                                                             *)
NumberPlusOne(x) ==
    CASE x.t = "number" -> NumberOfInteger(x.n + 1)
      [] x.t = "decimal" ->
           IF x.n >= 18 THEN x
           ELSE IF x.n <= -17 THEN Num(1)
           ELSE BinaryPlusOne(x.neg, BinaryOf(x))
      [] OTHER -> x

(* v + 1 on primitives: a string is concatenated, any other value is added *)
(* as a number                                                             *)
PrimitivePlusOne(p) ==
    IF p.t = "string" THEN Text(UnitsOf(p) \o <<49>>) ELSE NumberPlusOne(JsNumber(p))

(* maxRetries + 1 as written into the message *)
PlusOne(v) == PrimitivePlusOne(ToPrimitive(v))

TYPE_ALIASES ==
    [R_INFER_MEAN |-> "R_INFER_MEANING",
     R_FLOW_ODD |-> "R_FLOW_IRRELEVANT",
     R_FLOW_ORDER |-> "R_FLOW_SENTENCE"]

(* the keys of promptGenerators *)
promptGenerators ==
    { "R_MAIN", "R_DETAIL", "R_DETAIL_SPECIFIC", "R_INFER_REF", "R_INFER_SUMMARY",
      "R_INFER_BLANK", "R_INFER_MEANING", "R_GRAMMAR_USAGE", "R_GRAMMAR_ERROR",
      "R_VOCAB_SYN", "R_VOCAB_ANT", "R_VOCAB_DEF", "R_VOCAB_CONTEXT",
      "R_FLOW_IRRELEVANT", "R_FLOW_SENTENCE", "R_FLOW_PARAGRAPH", "R_FLOW_INSERT",
      "R_TITLE", "V_MEANING", "V_SYNONYM", "V_ANTONYM" }

(* getPromptForType(typeId, passage): the prompt of the resolved type, or  *)
(* null when there is no generator for it                                  *)
getPromptForType(typeId) ==
    LET resolvedTypeId ==
            IF typeId \in DOMAIN TYPE_ALIASES THEN TYPE_ALIASES[typeId] ELSE typeId
    IN  IF resolvedTypeId \in promptGenerators THEN Str(resolvedTypeId) ELSE Null

(* the object the text of a completion is parsed to, by the fields the     *)
(* service reads; a field the object does not have is undefined            *)
Data(question, choices, answer, type_id) ==
    [t |-> "object", question |-> question, choices |-> choices, answer |-> answer,
     type_id |-> type_id]

(* an array of n choices *)
Choices(n) == Arr([i \in 1..n |-> Str("choice")])

(* What an attempt gets from the completion API. The text of a completion  *)
(* is written by the API, and parseQuestionResponse (lines 139-185) reads  *)
(* nothing but that text: a response is given by what the call and the     *)
(* parsing make of it. Rejected: the call fails (line 58). Empty: the      *)
(* content is missing or the empty string (lines 70-73). Unparsable:       *)
(* JSON.parse throws and nothing is recovered from the text (line 183).    *)
(* Parsed(data): JSON.parse or tryRecoverJSON gives data (lines 172, 178). *)
Rejected == [t |-> "rejected"]
Empty == [t |-> "empty"]
Unparsable == [t |-> "unparsable"]
Parsed(data) == [t |-> "parsed", data |-> data]

ApiResponses ==
    { Rejected,
      Empty,
      Unparsable,
      Parsed(Null),
      Parsed(Num(5)),
      Parsed(Str("Sorry, I cannot help with that.")),
      Parsed(Arr(<<>>)),
      Parsed(Data(Undefined, Choices(5), Num(1), Undefined)),
      Parsed(Data(Str("Q"), Choices(3), Num(1), Undefined)),
      Parsed(Data(Str("Q"), Str("abcde"), Num(1), Undefined)),
      Parsed(Data(Str("Q"), Choices(5), Num(6), Undefined)),
      Parsed(Data(Str("Q"), Choices(5), Text(<<48, 120, 385>>), Undefined)),
      Parsed(Data(Str("Q"), Choices(5), Num(2), Undefined)),
      Parsed(Data(Str("Q"), Choices(5), Str("2"), Undefined)),
      Parsed(Data(Str("Q"), Choices(5), Num(1), Str("R_TITLE"))) }

(* the check of the answer, on Number(data.answer) and the number of       *)
(* choices                                                                 *)
AnswerInRange(answer, count) ==
    /\ answer.t # "nan"
    /\ ~JsLess(answer, Num(1))
    /\ ~JsLess(Num(count), answer)

(* the checks of the choices and of the answer (lines 269-276) *)
ValidateAnswer(choices, answer) ==
    IF choices.t # "array" THEN Str("choices must be an array of at least 4")
    ELSE IF Len(choices.a) < 4 THEN Str("choices must be an array of at least 4")
    ELSE IF AnswerInRange(JsNumber(answer), Len(choices.a)) THEN Bool(TRUE)
    ELSE Str("answer must be a number in range")

(* validateQuestionData(data): the message of the error it throws, or true *)
validateQuestionData(data) ==
    CASE data.t = "null" ->
             Str("Cannot read properties of null (reading 'question')")
      [] data.t \notin {"null", "object"} -> Str("missing field: question")
      [] OTHER ->
         CASE data.question.t \in {"undefined", "null"} -> Str("missing field: question")
           [] data.choices.t \in {"undefined", "null"} -> Str("missing field: choices")
           [] data.answer.t \in {"undefined", "null"} -> Str("missing field: answer")
           [] OTHER -> ValidateAnswer(data.choices, data.answer)

(* what the try block of one attempt makes of a response: the message of   *)
(* the error thrown in it, or true when it reaches the return              *)
AttemptError(response) ==
    CASE response.t = "rejected" -> Str("request failed")
      [] response.t = "empty" -> Str("empty API response")
      [] response.t = "unparsable" -> Str("JSON parse failure")
      [] response.t = "parsed" -> validateQuestionData(response.data)

(* { type_id: typeId, ...questionData }: a type_id of the data comes last  *)
(* and wins. input is the position of typeId in typeIds.                   *)
Question(typeId, questionData, input) ==
    [type_id |-> IF questionData.type_id.t = "undefined" THEN Str(typeId)
                 ELSE questionData.type_id,
     question |-> questionData.question,
     choices |-> questionData.choices,
     answer |-> questionData.answer,
     input |-> input]

(* the errors thrown by generateQuestionByType *)
UnknownTypeError(typeId) == [message |-> "unknown question type", typeId |-> typeId]

OptionsTypeError(typeId) ==
    [message |-> "Cannot destructure property 'maxRetries' of null", typeId |-> typeId]

GenerationFailedError(typeId, maxRetries, last) ==
    [message |-> "generation failed", typeId |-> typeId, attempts |-> PlusOne(maxRetries),
     cause |-> last]

(* for (...; attempt <= maxRetries; ...) *)
LoopContinuesExclusive(att, maxRetries) == JsLess(Num(att), maxRetries)

LoopContinues(att, maxRetries) == JsLessEq(Num(att), maxRetries)

(* errors.push({ type_id: typeId, error: error.message }) in the catch of  *)
(* generateQuestions. input is the position of typeId in typeIds.          *)
PushErrorKeepingLast(errs, typeId, error, input) ==
    <<[type_id |-> Str(typeId), error |-> error, input |-> input]>>

PushError(errs, typeId, error, input) ==
    Append(errs, [type_id |-> Str(typeId), error |-> error, input |-> input])

Summary(ids, res, errs) ==
    [total |-> Len(ids), success |-> Len(res), failed |-> Len(errs)]

MaxRetriesNow == MaxRetriesOf(genOptions)

(* the for-of loop of generateQuestions is between two type ids *)
AtLoopHead == gpc = "loop"

GenTypeIds == {"R_MAIN", "R_INFER_MEAN", "R_UNKNOWN"}

GenOptionValues ==
    {Undefined, Null, GenOptions(Undefined), GenOptions(Str("1")), GenOptions(Num(-1)),
     GenOptions(Text(<<48, 120, 385>>))}
        \cup {GenOptions(Num(n)) : n \in 0..MaxRetries}

(* generateQuestions(typeIds, passage, options) has been called: results   *)
(* and errors are empty and the loop has not taken a type id yet. The      *)
(* module keeps openaiClient from one call to the next (line 14): an       *)
(* earlier call may have made the client.                                  *)
InitGenerate ==
    /\ typeIds \in SeqsUpTo(GenTypeIds, MaxQuestions)
    /\ genOptions \in GenOptionValues
    /\ apiKey \in BOOLEAN
    /\ openaiClient \in BOOLEAN
    /\ gpc = "loop"
    /\ typeIndex = 0
    /\ attempt = 0
    /\ lastError = Null
    /\ responses = <<>>
    /\ settled = Null
    /\ questions = <<>>
    /\ errors = <<>>
    /\ summary = Null
    /\ CalendarIdle
    /\ pc = "call"
    /\ excelData = NoExcel
    /\ textFeatures = EmptyMap
    /\ eligibility = EmptyMap
    /\ options = Undefined
    /\ finalTypes = <<>>
    /\ cond = [feature |-> "", operator |-> "", value |-> Undefined]
    /\ condResult = FALSE
    /\ typeDetails = <<>>
    /\ results = {}

(* the loop takes the next type id and calls generateQuestionByType, which *)
(* throws at once for options that are null (line 39) and for a type       *)
(* without a prompt (lines 41-44) and otherwise enters its retry loop      *)
NextType ==
    /\ AtLoopHead
    /\ typeIndex < Len(typeIds)
    /\ typeIndex' = typeIndex + 1
    /\ attempt' = 0
    /\ lastError' = Null
    /\ responses' = <<>>
    /\ IF OptionsThrow(genOptions)
       THEN /\ settled' = OptionsTypeError(typeIds[typeIndex'])
            /\ gpc' = "threw"
       ELSE IF getPromptForType(typeIds[typeIndex']) = Null
       THEN /\ settled' = UnknownTypeError(typeIds[typeIndex'])
            /\ gpc' = "threw"
       ELSE /\ settled' = Null
            /\ gpc' = "attempt"
    /\ UNCHANGED <<typeIds, genOptions, apiKey, openaiClient, questions, errors, summary>>
    /\ UNCHANGED <<coreVars, calendarVars>>

(* the error caught in the retry loop: lastError = error, then the delay   *)
(* when another attempt follows, else on to the loop's increment           *)
Caught(error, met) ==
    /\ lastError' = error
    /\ responses' = Append(responses, met)
    /\ IF JsLess(Num(attempt), MaxRetriesNow)
       THEN /\ gpc' = "sleep"
            /\ attempt' = attempt
       ELSE /\ gpc' = "attempt"
            /\ attempt' = attempt + 1

(* an attempt starts: getOpenAIClient() throws without an API key,         *)
(* otherwise the completion request is sent                                *)
BeginAttempt ==
    /\ gpc = "attempt"
    /\ LoopContinues(attempt, MaxRetriesNow)
    /\ IF ~openaiClient /\ ~apiKey
       THEN /\ Caught(Str("OPENAI_API_KEY is not set"), "noClient")
            /\ openaiClient' = openaiClient
       ELSE /\ openaiClient' = TRUE
            /\ gpc' = "awaitCompletion"
            /\ UNCHANGED <<attempt, lastError, responses>>
    /\ UNCHANGED <<typeIds, genOptions, apiKey, typeIndex, settled, questions, errors,
                   summary>>
    /\ UNCHANGED <<coreVars, calendarVars>>

(* the completion call comes back: the question is returned, or the error  *)
(* of the attempt is caught                                                *)
CompletionArrives ==
    /\ gpc = "awaitCompletion"
    /\ \E response \in ApiResponses :
          IF AttemptError(response) = Bool(TRUE)
          THEN /\ settled' = Question(typeIds[typeIndex], response.data, typeIndex)
               /\ responses' = Append(responses, "valid")
               /\ gpc' = "returned"
               /\ UNCHANGED <<attempt, lastError>>
          ELSE /\ Caught(AttemptError(response), "failed")
               /\ settled' = settled
    /\ UNCHANGED <<typeIds, genOptions, apiKey, openaiClient, typeIndex, questions, errors,
                   summary>>
    /\ UNCHANGED <<coreVars, calendarVars>>

(* the delay before the next attempt is over *)
DelayOver ==
    /\ gpc = "sleep"
    /\ attempt' = attempt + 1
    /\ gpc' = "attempt"
    /\ UNCHANGED <<typeIds, genOptions, apiKey, openaiClient, typeIndex, lastError,
                   responses, settled, questions, errors, summary>>
    /\ UNCHANGED <<coreVars, calendarVars>>

(* the retry loop is over: generateQuestionByType throws *)
GiveUp ==
    /\ gpc = "attempt"
    /\ ~LoopContinues(attempt, MaxRetriesNow)
    /\ settled' = GenerationFailedError(typeIds[typeIndex], MaxRetriesNow, lastError)
    /\ gpc' = "threw"
    /\ UNCHANGED <<typeIds, genOptions, apiKey, openaiClient, typeIndex, attempt,
                   lastError, responses, questions, errors, summary>>
    /\ UNCHANGED <<coreVars, calendarVars>>

(* generateQuestions resumes after its await with the question returned:   *)
(* results.push(question)                                                  *)
PushQuestion ==
    /\ gpc = "returned"
    /\ questions' = Append(questions, settled)
    /\ settled' = Null
    /\ gpc' = "loop"
    /\ UNCHANGED <<typeIds, genOptions, apiKey, openaiClient, typeIndex, attempt,
                   lastError, responses, errors, summary>>
    /\ UNCHANGED <<coreVars, calendarVars>>

(* generateQuestions resumes after its await in the catch: errors.push *)
CatchError ==
    /\ gpc = "threw"
    /\ errors' = PushError(errors, typeIds[typeIndex], settled, typeIndex)
    /\ settled' = Null
    /\ gpc' = "loop"
    /\ UNCHANGED <<typeIds, genOptions, apiKey, openaiClient, typeIndex, attempt,
                   lastError, responses, questions, summary>>
    /\ UNCHANGED <<coreVars, calendarVars>>

(* the loop is over: generateQuestions returns questions, errors, summary *)
ReturnQuestions ==
    /\ AtLoopHead
    /\ typeIndex = Len(typeIds)
    /\ summary' = Summary(typeIds, questions, errors)
    /\ gpc' = "done"
    /\ UNCHANGED <<typeIds, genOptions, apiKey, openaiClient, typeIndex, attempt,
                   lastError, responses, settled, questions, errors>>
    /\ UNCHANGED <<coreVars, calendarVars>>

NextGenerate ==
    \/ NextType
    \/ BeginAttempt
    \/ CompletionArrives
    \/ DelayOver
    \/ GiveUp
    \/ PushQuestion
    \/ CatchError
    \/ ReturnQuestions

SpecGenerate == InitGenerate /\ [][NextGenerate]_vars

-----------------------------------------------------------------------------
(* calendar-api server.js (JSONBin: one stored object for all dates) and   *)
(* the MongoDB server (one stored document per date): the routes that      *)
(* write, each a read of the stored data, a change of what was read and a  *)
(* write, with an await before the read comes back and before the write    *)
(* comes back                                                              *)

Dates == {"2024-01-01", "2024-01-02"}

Backends == {"jsonbin", "mongodb"}

Routes ==
    {"addSchedule", "updateSchedule", "deleteSchedule", "setExercise", "deleteExercise",
     "setMemo", "deleteMemo"}

(* a schedule by its id, and by the request whose update it took last (0   *)
(* for none); the uuid of the schedule that request h adds is h            *)
Schedule(id) == [id |-> id, updatedBy |-> 0]

(* the exercise and the memo that request h writes *)
Exercise(h) == [t |-> "object", by |-> h]
Memo(h) == [t |-> "string", by |-> h]

(* the data of a date by the fields the routes read and write; a field the *)
(* object does not have is undefined                                       *)
Entry(schedules, exercise, memo, memoUpdatedAt) ==
    [schedules |-> schedules, exercise |-> exercise, memo |-> memo,
     memoUpdatedAt |-> memoUpdatedAt]

(* { schedules: [], exercise: null } *)
DateEntry(schedules) == Entry(Arr(schedules), Null, Undefined, Undefined)

(* { schedules: [], exercise: null, memo: '' } *)
MemoEntry == Entry(Arr(<<>>), Null, Str(""), Undefined)

(* the schedules of a date in the data, none when the date or its          *)
(* schedules are not there                                                 *)
SchedulesOf(data, date) ==
    IF date \notin DOMAIN data THEN <<>>
    ELSE IF Falsy(data[date].schedules) THEN <<>>
    ELSE data[date].schedules.a

(* data with the entry of one date replaced *)
WithDate(data, date, entry) ==
    [d \in DOMAIN data \cup {date} |-> IF d = date THEN entry ELSE data[d]]

(* allData[date] after if (!allData[date]) allData[date] = fresh; for the  *)
(* MongoDB server getDateData(date) || fresh                               *)
EntryOr(data, date, fresh) == IF date \in DOMAIN data THEN data[date] ELSE fresh

(* what the handler holds after its read: getAllData() gives the whole     *)
(* stored object, and {} when the request fails; getDateData(date) gives   *)
(* the data of the one date, and null when it is not there or fails        *)
ReadResult(be, stored, date, ok) ==
    IF ~ok THEN EmptyMap
    ELSE IF be = "jsonbin" THEN stored
    ELSE IF date \in DOMAIN stored THEN [d \in {date} |-> stored[date]]
    ELSE EmptyMap

(* allData[date].schedules.push(schedule) on an entry, after               *)
(* if (!allData[date].schedules) allData[date].schedules = []; the other   *)
(* fields of the entry stay                                                *)
PushTo(entry, schedule) ==
    [entry EXCEPT !.schedules =
        Arr(Append(IF Falsy(entry.schedules) THEN <<>> ELSE entry.schedules.a, schedule))]

(* the add-schedule route on what was read *)
PushSchedule(data, date, schedule) ==
    WithDate(data, date, PushTo(EntryOr(data, date, DateEntry(<<>>)), schedule))

(* if (!allData[date] || !allData[date].schedules) return 404 *)
NoSchedules(data, date) ==
    date \notin DOMAIN data \/ Falsy(data[date].schedules)

(* schedules.findIndex(s => s.id === id) is not -1 *)
HasSchedule(data, date, id) ==
    \E k \in 1..Len(SchedulesOf(data, date)) : SchedulesOf(data, date)[k].id = id

(* the update route: the first schedule with the id takes the update *)
UpdateSchedule(data, date, id, h) ==
    LET list == SchedulesOf(data, date)
        idx == CHOOSE k \in 1..Len(list) :
                  list[k].id = id /\ \A j \in 1..(k - 1) : list[j].id # id
    IN  WithDate(data, date,
                 [data[date] EXCEPT !.schedules =
                     Arr([list EXCEPT ![idx] = [list[idx] EXCEPT !.updatedBy = h]])])

(* the delete route: schedules.filter(s => s.id !== id) *)
DeleteSchedule(data, date, id) ==
    WithDate(data, date,
             [data[date] EXCEPT !.schedules =
                 Arr(SelectSeq(SchedulesOf(data, date), LAMBDA s : s.id # id))])

(* the exercise route *)
SetExercise(data, date, h) ==
    WithDate(data, date, [EntryOr(data, date, DateEntry(<<>>)) EXCEPT !.exercise = Exercise(h)])

(* allData[date].exercise = null *)
ClearExercise(data, date) ==
    WithDate(data, date, [data[date] EXCEPT !.exercise = Null])

(* the memo route *)
SetMemo(data, date, h) ==
    WithDate(data, date,
             [EntryOr(data, date, MemoEntry) EXCEPT !.memo = Memo(h),
                                                    !.memoUpdatedAt = Memo(h)])

(* allData[date].memo = ''; delete allData[date].memoUpdatedAt *)
ClearMemo(data, date) ==
    WithDate(data, date, [data[date] EXCEPT !.memo = Str(""), !.memoUpdatedAt = Undefined])

(* what is stored after the handler's write: saveAllData(allData) puts the *)
(* whole object in place of the stored one; setDateData(date, data)        *)
(* upserts the document of the one date; a failed write changes nothing    *)
WriteResult(be, stored, date, data, ok) ==
    IF ~ok THEN stored
    ELSE IF be = "jsonbin" THEN data
    ELSE WithDate(stored, date, data[date])

(* a request that has arrived: its route, its date, whether its body has   *)
(* content and tag, the id of its path, and the handler's locals           *)
Request(route, date, valid) ==
    [pc |-> "received", route |-> route, date |-> date, valid |-> valid, id |-> 0,
     allData |-> EmptyMap, status |-> 0, readOk |-> FALSE, saveOk |-> FALSE]

(* the requests of the model: add-schedule for every date, with and        *)
(* without content and tag, and the other routes for the first date and    *)
(* the schedule stored at the start                                        *)
Requests ==
    {Request("addSchedule", d, v) : d \in Dates, v \in BOOLEAN}
        \cup {Request(r, "2024-01-01", TRUE) : r \in Routes \ {"addSchedule"}}

(* the stored data at the start: nothing, a date with one schedule, and a  *)
(* date whose data has a memo and no schedules field                       *)
StoredAtStart ==
    { EmptyMap,
      [d \in {"2024-01-01"} |-> DateEntry(<<Schedule(0)>>)],
      [d \in {"2024-01-01"} |-> Entry(Undefined, Undefined, Str("memo"), Str("then"))] }

(* the server with MaxRequests requests arrived *)
InitCalendar ==
    /\ backend \in Backends
    /\ store \in StoredAtStart
    /\ handlers \in [1..MaxRequests -> Requests]
    /\ QuestionIdle
    /\ pc = "call"
    /\ excelData = NoExcel
    /\ textFeatures = EmptyMap
    /\ eligibility = EmptyMap
    /\ options = Undefined
    /\ finalTypes = <<>>
    /\ cond = [feature |-> "", operator |-> "", value |-> Undefined]
    /\ condResult = FALSE
    /\ typeDetails = <<>>
    /\ results = {}

(* the handler starts: add-schedule answers 400 without content or tag;    *)
(* otherwise the read is sent                                              *)
Receive(h) ==
    /\ handlers[h].pc = "received"
    /\ IF handlers[h].route = "addSchedule" /\ ~handlers[h].valid
       THEN handlers' = [handlers EXCEPT ![h].pc = "responded", ![h].status = 400]
       ELSE handlers' = [handlers EXCEPT ![h].pc = "reading"]
    /\ UNCHANGED <<backend, store>>
    /\ UNCHANGED <<coreVars, questionVars>>

(* the handler goes on after its read with the changed data and sends the  *)
(* write                                                                   *)
Save(h, ok, data) ==
    handlers' = [handlers EXCEPT ![h].pc = "saving", ![h].readOk = ok, ![h].allData = data]

(* the handler answers after its read without a write *)
Respond(h, ok, status) ==
    handlers' = [handlers EXCEPT ![h].pc = "responded", ![h].readOk = ok, ![h].status = status]

(* what the read of handler h gives *)
Read(h, ok) == ReadResult(backend, store, handlers[h].date, ok)

(* POST /api/calendar/:date/schedule after its read: the schedule is       *)
(* pushed to what was read                                                 *)
AddScheduleRead(h) ==
    /\ handlers[h].pc = "reading"
    /\ handlers[h].route = "addSchedule"
    /\ \E ok \in BOOLEAN :
          Save(h, ok, PushSchedule(Read(h, ok), handlers[h].date, Schedule(h)))
    /\ UNCHANGED <<backend, store>>
    /\ UNCHANGED <<coreVars, questionVars>>

(* PUT /api/calendar/:date/schedule/:id after its read: 404 without the    *)
(* schedule                                                                *)
UpdateScheduleRead(h) ==
    /\ handlers[h].pc = "reading"
    /\ handlers[h].route = "updateSchedule"
    /\ \E ok \in BOOLEAN :
          IF NoSchedules(Read(h, ok), handlers[h].date)
             \/ ~HasSchedule(Read(h, ok), handlers[h].date, handlers[h].id)
          THEN Respond(h, ok, 404)
          ELSE Save(h, ok, UpdateSchedule(Read(h, ok), handlers[h].date, handlers[h].id, h))
    /\ UNCHANGED <<backend, store>>
    /\ UNCHANGED <<coreVars, questionVars>>

(* DELETE /api/calendar/:date/schedule/:id after its read *)
DeleteScheduleRead(h) ==
    /\ handlers[h].pc = "reading"
    /\ handlers[h].route = "deleteSchedule"
    /\ \E ok \in BOOLEAN :
          IF NoSchedules(Read(h, ok), handlers[h].date)
          THEN Respond(h, ok, 404)
          ELSE Save(h, ok, DeleteSchedule(Read(h, ok), handlers[h].date, handlers[h].id))
    /\ UNCHANGED <<backend, store>>
    /\ UNCHANGED <<coreVars, questionVars>>

(* POST /api/calendar/:date/exercise after its read *)
SetExerciseRead(h) ==
    /\ handlers[h].pc = "reading"
    /\ handlers[h].route = "setExercise"
    /\ \E ok \in BOOLEAN : Save(h, ok, SetExercise(Read(h, ok), handlers[h].date, h))
    /\ UNCHANGED <<backend, store>>
    /\ UNCHANGED <<coreVars, questionVars>>

(* DELETE /api/calendar/:date/exercise after its read: nothing is written  *)
(* for a date without data                                                 *)
DeleteExerciseRead(h) ==
    /\ handlers[h].pc = "reading"
    /\ handlers[h].route = "deleteExercise"
    /\ \E ok \in BOOLEAN :
          IF handlers[h].date \in DOMAIN Read(h, ok)
          THEN Save(h, ok, ClearExercise(Read(h, ok), handlers[h].date))
          ELSE Respond(h, ok, 200)
    /\ UNCHANGED <<backend, store>>
    /\ UNCHANGED <<coreVars, questionVars>>

(* POST /api/calendar/:date/memo after its read *)
SetMemoRead(h) ==
    /\ handlers[h].pc = "reading"
    /\ handlers[h].route = "setMemo"
    /\ \E ok \in BOOLEAN : Save(h, ok, SetMemo(Read(h, ok), handlers[h].date, h))
    /\ UNCHANGED <<backend, store>>
    /\ UNCHANGED <<coreVars, questionVars>>

(* DELETE /api/calendar/:date/memo after its read *)
DeleteMemoRead(h) ==
    /\ handlers[h].pc = "reading"
    /\ handlers[h].route = "deleteMemo"
    /\ \E ok \in BOOLEAN :
          IF handlers[h].date \in DOMAIN Read(h, ok)
          THEN Save(h, ok, ClearMemo(Read(h, ok), handlers[h].date))
          ELSE Respond(h, ok, 200)
    /\ UNCHANGED <<backend, store>>
    /\ UNCHANGED <<coreVars, questionVars>>

(* the write comes back; the handler answers { success: true, ... }        *)
(* whatever saveAllData / setDateData returned                             *)
SaveDone(h) ==
    /\ handlers[h].pc = "saving"
    /\ \E ok \in BOOLEAN :
          /\ store' = WriteResult(backend, store, handlers[h].date, handlers[h].allData, ok)
          /\ handlers' = [handlers EXCEPT
                             ![h].pc = "responded", ![h].status = 200, ![h].saveOk = ok]
    /\ UNCHANGED backend
    /\ UNCHANGED <<coreVars, questionVars>>

NextCalendar ==
    \E h \in 1..MaxRequests :
        \/ Receive(h)
        \/ AddScheduleRead(h)
        \/ UpdateScheduleRead(h)
        \/ DeleteScheduleRead(h)
        \/ SetExerciseRead(h)
        \/ DeleteExerciseRead(h)
        \/ SetMemoRead(h)
        \/ DeleteMemoRead(h)
        \/ SaveDone(h)

SpecCalendar == InitCalendar /\ [][NextCalendar]_vars

-----------------------------------------------------------------------------
(* Properties of calculateEligibility (SpecElig) *)

Catalog == getQuestionTypes(excelData)

(* what a record holds under a name: the value of its own entry, and       *)
(* undefined for a name it has no entry for                                *)
Own(record, name) == IF name \in DOMAIN record THEN record[name] ELSE Undefined

(* the map marks the type eligible: it has an entry for it, which is true *)
MarkedIn(elig, id) == id \in DOMAIN elig /\ elig[id] = TRUE

Marked(id) == MarkedIn(eligibility, id)

(* the requirement rows getTypeRequirements filters: none when the list is *)
(* absent                                                                  *)
RequirementTable ==
    IF Falsy(excelData) THEN <<>>
    ELSE IF Falsy(excelData.typeRequirements) THEN <<>>
    ELSE excelData.typeRequirements.a

(* the requirements of the table that name the type *)
RequirementsOf(typeId) ==
    {i \in 1..Len(RequirementTable) : RequirementTable[i].type_id = typeId}

Satisfied(i) ==
    evaluateCondition(textFeatures, RequirementTable[i].feature,
                      RequirementTable[i].operator, RequirementTable[i].value)

(* C1: after calculateEligibility, every catalog type that has no          *)
(* requirement in the table is marked eligible (true), whatever the        *)
(* attribute record holds.                                                 *)
C1_ZeroRequirementsEligible ==
    pc = "done" =>
        \A id \in CatalogIds(Catalog) :
            RequirementsOf(id) = {} => Marked(id)

(* C2: after calculateEligibility, the value of a catalog type that has    *)
(* requirements is the conjunction of evaluateCondition over all of them.  *)
C2_EligibilityIsConjunction ==
    pc = "done" =>
        \A id \in CatalogIds(Catalog) :
            RequirementsOf(id) # {} =>
                /\ id \in DOMAIN eligibility
                /\ eligibility[id] = (\A i \in RequirementsOf(id) : Satisfied(i))

(* C4: a condition on a feature the record holds whose operator is not one *)
(* of the supported operators evaluates to true, so a catalog type whose   *)
(* only requirement is such a condition is marked eligible.                *)
C4_UnknownOperatorPasses ==
    pc = "done" =>
        \A id \in CatalogIds(Catalog) :
            \A i \in RequirementsOf(id) :
                ( /\ RequirementsOf(id) = {i}
                  /\ RequirementTable[i].operator \notin SupportedOperators
                  /\ Own(textFeatures, RequirementTable[i].feature)
                        \notin {Undefined, Null} )
                => (Satisfied(i) /\ Marked(id))

-----------------------------------------------------------------------------
(* Properties of evaluateCondition (SpecCond) *)

FeatureValue == Own(textFeatures, cond.feature)

(* the record holds the feature: its value is neither undefined nor null *)
Present == FeatureValue \notin {Undefined, Null}

(* C3: a condition on a feature that is undefined or null in the record    *)
(* evaluates to false, for every operator, supported or not.               *)
C3_MissingFeatureIsFalse ==
    (pc = "done" /\ ~Present) => condResult = FALSE

(* C5: on a present feature, the result of operator in is the negation of  *)
(* the result of operator not_in for the same feature and rule value.      *)
C5_InNotInComplement ==
    (pc = "done" /\ Present) =>
        /\ cond.operator = "in" =>
              condResult = ~evaluateCondition(textFeatures, cond.feature, "not_in", cond.value)
        /\ cond.operator = "not_in" =>
              condResult = ~evaluateCondition(textFeatures, cond.feature, "in", cond.value)

(* membership found only after the list elements are trimmed *)
C5_Witness ==
    /\ pc = "done"
    /\ FeatureValue = Str(" 5")
    /\ cond.operator = "in"
    /\ cond.value = Str("3, 5")
    /\ condResult = TRUE

-----------------------------------------------------------------------------
(* Properties of decideFinalTypes (SpecFinal, SpecPolicy) *)

Tone == Own(textFeatures, "tone")

Capacity == MaxTypesOf(options).n

EligibleBasic == {b \in Range(basicTypes) : Marked(b)}

(* the catalog entries marked eligible *)
EligibleEntries == {i \in 1..Len(Catalog) : Marked(Catalog[i].type_id)}

(* C6: under tone "evaluative" the list holds no R_FLOW_ type and at most  *)
(* one R_INFER_ type, for every catalog, every eligibility map and every   *)
(* capacity, a capacity that is no positive integer included.              *)
C6_EvaluativePolicy ==
    (pc = "done" /\ Tone = Str("evaluative")) =>
        /\ \A i \in 1..Len(finalTypes) : ~IsFlow(finalTypes[i])
        /\ Cardinality({id \in Range(finalTypes) : IsInfer(id)}) <= 1

(* five eligible types, two of them inference types and one a flow type,   *)
(* with a capacity that is no number and stops nothing: the flow type and  *)
(* one inference type are left out                                         *)
C6_Witness ==
    /\ pc = "done"
    /\ Tone = Str("evaluative")
    /\ options = Options(Text(<<48, 120, 385>>))
    /\ Catalog = ScenarioTypes
    /\ \A id \in CatalogIds(Catalog) : Marked(id)
    /\ finalTypes = <<"R_MAIN", "R_DETAIL", "R_INFER_B">>

(* C7: an eligible mandatory type is in the list, for every tone and every *)
(* capacity that is at least the number of eligible mandatory types.       *)
C7_MandatoryIncluded ==
    (pc = "done" /\ Capacity >= Cardinality(EligibleBasic)) =>
        \A b \in EligibleBasic : b \in Range(finalTypes)

(* R_MAIN kept at capacity 1 although an eligible type has a smaller       *)
(* priority number                                                         *)
C7_Witness ==
    /\ pc = "done"
    /\ Tone = Str("evaluative")
    /\ Capacity = 1
    /\ EligibleBasic = {"R_MAIN"}
    /\ \E i, j \in EligibleEntries :
          /\ Catalog[i].type_id = "R_MAIN"
          /\ Catalog[j].type_id = "R_INFER_REF"
          /\ Catalog[j].priority < Catalog[i].priority
    /\ finalTypes = <<"R_MAIN">>

(* C8: the list is never longer than the capacity. *)
C8_LengthWithinCapacity ==
    pc = "done" => Len(finalTypes) <= Capacity

(* the priority the catalog gives an id; 99 for an id it does not hold *)
CatalogPriority(id) ==
    IF HasType(Catalog, id) THEN TypeMapGet(Catalog, id).priority ELSE 99

(* C9: the list is sorted ascending by catalog priority, an id missing     *)
(* from the catalog counting as 99.                                        *)
C9_SortedByPriority ==
    pc = "done" =>
        \A i \in 1..(Len(finalTypes) - 1) :
            CatalogPriority(finalTypes[i]) <= CatalogPriority(finalTypes[i + 1])

(* C10: the list holds no type_id twice. *)
C10_NoDuplicates ==
    pc = "done" =>
        \A i, j \in 1..Len(finalTypes) : i # j => finalTypes[i] # finalTypes[j]

(* a type_id the catalog lists twice, or a mandatory type that is also a   *)
(* catalog entry, appears once                                             *)
C10_Witness ==
    /\ pc = "done"
    /\ \E i, j \in EligibleEntries :
          /\ i # j
          /\ Catalog[i].type_id = Catalog[j].type_id
          /\ Catalog[i].type_id \in EligibleBasic
          /\ Catalog[i].type_id \in Range(finalTypes)
    /\ Len(finalTypes) = 1

(* C11: every type_id of the list is the type_id of a catalog entry, also  *)
(* when the map marks R_MAIN or R_DETAIL eligible and the catalog has no   *)
(* such entry.                                                             *)
C11_IdsFromCatalog ==
    pc = "done" =>
        \A i \in 1..Len(finalTypes) : HasType(Catalog, finalTypes[i])

(* C11, amended: every type_id of the list is the type_id of a catalog     *)
(* entry or is R_MAIN or R_DETAIL marked eligible by the map; and R_MAIN   *)
(* or R_DETAIL marked eligible by the map is in the list, also when the    *)
(* catalog has no entry for it.                                            *)
C11_IdsFromCatalogOrMandatory ==
    pc = "done" =>
        /\ \A i \in 1..Len(finalTypes) :
              \/ HasType(Catalog, finalTypes[i])
              \/ /\ finalTypes[i] \in {"R_MAIN", "R_DETAIL"}
                 /\ finalTypes[i] \in DOMAIN eligibility
                 /\ eligibility[finalTypes[i]]
        /\ \A b \in {"R_MAIN", "R_DETAIL"} :
              (b \in DOMAIN eligibility /\ eligibility[b]) => b \in Range(finalTypes)

(* the list holds a mandatory type the catalog lacks next to a catalog     *)
(* entry, and a mandatory type the map does not mark stays out             *)
C11_Witness ==
    /\ pc = "done"
    /\ \E i, j \in 1..Len(finalTypes) :
          /\ ~HasType(Catalog, finalTypes[i])
          /\ HasType(Catalog, finalTypes[j])
    /\ \E b \in {"R_MAIN", "R_DETAIL"} :
          /\ b \in DOMAIN eligibility
          /\ ~eligibility[b]
          /\ b \notin Range(finalTypes)

(* C15: when the capacity is at most the number of eligible mandatory      *)
(* types, the list holds the eligible mandatory types and nothing else,    *)
(* also when another eligible type has a smaller priority number.          *)
C15_OnlyMandatoryAtLowCapacity ==
    (pc = "done" /\ Capacity <= Cardinality(EligibleBasic)) =>
        /\ Range(finalTypes) = EligibleBasic
        /\ Len(finalTypes) = Cardinality(EligibleBasic)

(* an eligible catalog type with a smaller priority number than an         *)
(* eligible mandatory catalog type is left out                             *)
C15_Witness ==
    /\ pc = "done"
    /\ Capacity <= Cardinality(EligibleBasic)
    /\ \E i, j \in EligibleEntries :
          /\ Catalog[i].type_id \in EligibleBasic
          /\ Catalog[j].type_id \notin Range(basicTypes)
          /\ 0 < Catalog[j].priority
          /\ Catalog[j].priority < Catalog[i].priority
          /\ Catalog[j].type_id \notin Range(finalTypes)
          /\ Catalog[i].type_id \in Range(finalTypes)

(* C17: when the eligibility map marks no type eligible the list is empty. *)
C17_NothingEligibleEmptyList ==
    (pc = "done" /\ \A id \in DOMAIN eligibility : ~eligibility[id]) =>
        finalTypes = <<>>

(* the eligibility map computed from the rows of the requirement table     *)
(* whose index is in keep, the catalog and the record being those of the   *)
(* state                                                                   *)
EligibilityUnder(keep) ==
    calculateEligibility(ExcelData(Catalog, FilterIdx(RequirementTable, keep)),
                         textFeatures)

(* C16: a type that is ineligible under the requirement table with one row *)
(* taken out is ineligible under the table: adding a requirement never     *)
(* turns an ineligible type eligible. The tables explored are closed under *)
(* taking rows out, so every chain of additions is covered step by step.   *)
C16_AddingRequirementsNeverEnables ==
    pc = "done" =>
        \A k \in 1..Len(RequirementTable) :
            LET under == EligibilityUnder((1..Len(RequirementTable)) \ {k})
            IN  \A id \in CatalogIds(Catalog) : ~MarkedIn(under, id) => ~Marked(id)

(* a type ineligible under one requirement stays ineligible when a         *)
(* requirement that the record satisfies is added to it                    *)
C16_Witness ==
    /\ pc = "done"
    /\ \E id \in CatalogIds(Catalog) :
          \E k \in RequirementsOf(id) :
              /\ Satisfied(k)
              /\ RequirementsOf(id) \ {k} # {}
              /\ ~MarkedIn(EligibilityUnder((1..Len(RequirementTable)) \ {k}), id)
              /\ id \in DOMAIN eligibility
              /\ ~eligibility[id]

(* a list of policy data that is absent or empty *)
AbsentOrEmpty(data, field) ==
    \/ Falsy(data)
    \/ Falsy(data[field])
    \/ data[field].a = <<>>

(* the policy data with the built-in table put in place of each absent or  *)
(* empty list                                                              *)
WithDefaultTables(data) ==
    ExcelData(IF AbsentOrEmpty(data, "questionTypes") THEN getDefaultQuestionTypes
              ELSE data.questionTypes.a,
              IF AbsentOrEmpty(data, "typeRequirements") THEN getDefaultTypeRequirements
              ELSE data.typeRequirements.a)

(* C20: when the list of types or the list of requirements is empty or     *)
(* absent, the eligibility map is the one computed with the built-in       *)
(* default table in place of that list.                                    *)
C20_DefaultTablesUsed ==
    pc = "done" =>
        eligibility = calculateEligibility(WithDefaultTables(excelData), textFeatures)

(* the capacity option is missing, zero or negative *)
CapacityMissingOrNotPositive ==
    \/ options.t = "undefined"
    \/ /\ options.t = "object"
       /\ \/ options.maxTypes.t = "undefined"
          \/ options.maxTypes.t = "number" /\ options.maxTypes.n <= 0

(* C13: with the capacity option missing, zero or negative the call        *)
(* returns what the same call returns with capacity 5.                     *)
C13_FallsBackToDefaultCapacity ==
    (pc # "call" /\ CapacityMissingOrNotPositive) =>
        /\ pc = "done"
        /\ finalTypes = decideFinalTypes(excelData, textFeatures, eligibility,
                                         Options(Num(5)))

(* C14: the call never throws, whatever the options value: left out, null, *)
(* or with a capacity that is null or not a number.                        *)
C14_NeverThrows == pc # "threw"

(* C12: two calls of the same function with the same policy data, record,  *)
(* eligibility map and options return the same value, whatever calls were  *)
(* made in between.                                                        *)
C12_Deterministic ==
    \A r1, r2 \in results :
        (r1.fn = r2.fn /\ r1.elig = r2.elig /\ r1.opts = r2.opts) => r1.out = r2.out

(* each function has returned, determineQuestionTypes last and after the   *)
(* others, on a catalog that is not in priority order and with a list of   *)
(* two types                                                               *)
C12_Witness ==
    /\ pc = "determineQuestionTypes"
    /\ \A fn \in {"calculateEligibility", "decideFinalTypes", "determineQuestionTypes"} :
          \E r \in results : r.fn = fn
    /\ \E r \in results : r.fn = "decideFinalTypes" /\ r.elig # EmptyMap
    /\ Len(finalTypes) = 2
    /\ \E i, j \in 1..Len(Catalog) : i < j /\ Catalog[i].priority > Catalog[j].priority

(* C18: typeDetails has the length and order of finalTypes; its i-th entry *)
(* is a catalog record whose type_id is finalTypes[i]. The stub holding    *)
(* the type_id alone stands for an id without catalog record: inside       *)
(* determineQuestionTypes the list is decided on the map the first filter  *)
(* made from the same catalog, every id of the list has a catalog record,  *)
(* and no stub is returned.                                                *)
C18_TypeDetailsFollowFinalTypes ==
    pc = "determineQuestionTypes" =>
        /\ Len(typeDetails) = Len(finalTypes)
        /\ \A i \in 1..Len(finalTypes) :
              /\ HasType(Catalog, finalTypes[i])
              /\ typeDetails[i] \in Range(Catalog)
              /\ typeDetails[i].type_id = finalTypes[i]
              /\ typeDetails[i] # Stub(finalTypes[i])

(* two types returned in priority order, the reverse of their catalog      *)
(* order, with their catalog records                                       *)
C18_Witness ==
    /\ pc = "determineQuestionTypes"
    /\ Len(finalTypes) = 2
    /\ Len(Catalog) = 2
    /\ Catalog[1].type_id = finalTypes[2]
    /\ Catalog[2].type_id = finalTypes[1]
    /\ typeDetails = <<Catalog[2], Catalog[1]>>

(* C19: no call changes the catalog, the requirement list or the attribute *)
(* record, and decideFinalTypes does not change the eligibility map it is  *)
(* given.                                                                  *)
C19_InputsUnchanged ==
    [][/\ excelData' = excelData
       /\ textFeatures' = textFeatures
       /\ pc' = "decideFinalTypes" => eligibility' = eligibility]_vars

(* decideFinalTypes and determineQuestionTypes have both returned on a     *)
(* catalog that is not in priority order, under tone "evaluative" with two *)
(* eligible inference types, where the function sorts                      *)
C19_Witness ==
    /\ pc = "decideFinalTypes"
    /\ \E r \in results : r.fn = "determineQuestionTypes"
    /\ Tone = Str("evaluative")
    /\ \E i, j \in EligibleEntries :
          /\ i < j
          /\ IsInfer(Catalog[i].type_id)
          /\ IsInfer(Catalog[j].type_id)
          /\ Catalog[i].type_id # Catalog[j].type_id
    /\ \E i, j \in 1..Len(Catalog) : i < j /\ Catalog[i].priority > Catalog[j].priority
    /\ Len(finalTypes) > 0

-----------------------------------------------------------------------------
(* Properties of the operators of evaluateCondition (SpecCond) *)

(* a boolean, a number or a string: the values normalization is stated for *)
Plain(v) == v.t \in {"boolean", "number", "decimal", "infinity", "string"}

(* the normal form of each string among the attribute and rule values, as  *)
(* the specification words it: true for the trimmed lower-cased tokens     *)
(* true, y, yes; false for false, n, no; the number for any other string   *)
(* that parses as a number; the trimmed lower-cased string otherwise       *)
StatedForms ==
    { <<Str("Y"), Bool(TRUE)>>, <<Str(" yes "), Bool(TRUE)>>, <<Str("true"), Bool(TRUE)>>,
      <<Str("No"), Bool(FALSE)>>, <<Str("no"), Bool(FALSE)>>,
      <<Str("3"), Num(3)>>, <<Str("03"), Num(3)>>, <<Text(<<5760, 51>>), Num(3)>>,
      <<Str("0x3"), Num(3)>>, <<Str(" 5"), Num(5)>>, <<Str("1.0"), Num(1)>>,
      <<Str("3.5"), Dec(35, -1)>>, <<Str("2e-324"), Num(0)>>,
      <<Str("Infinity"), Infinity(FALSE)>>, <<Str("infinity"), Str("infinity")>>,
      <<Str("evaluative"), Str("evaluative")>>, <<Str("Evaluative"), Str("evaluative")>>,
      <<Str("Factual "), Str("factual")>>,
      <<Str("factual, evaluative"), Str("factual, evaluative")>>,
      <<Str(""), Str("")>>, <<Str("a,b"), Str("a,b")>>,
      <<Text(<<5760, 97, 44, 98>>), Str("a,b")>>,
      <<Str("y,n"), Str("y,n")>>, <<Str("03,5"), Str("03,5")>>,
      <<Str("3, 5"), Str("3, 5")>>, <<Str("1.0,2"), Str("1.0,2")>>,
      <<Text(<<201, 99, 111, 108, 101>>), Text(<<233, 99, 111, 108, 101>>)>>,
      <<Text(<<233, 67, 79, 76, 69>>), Text(<<233, 99, 111, 108, 101>>)>>,
      <<Text(<<7305>>), Text(<<7306>>)>>, <<Text(<<7306>>), Text(<<7306>>)>>,
      <<Text(<<48, 120, 385>>), Text(<<48, 120, 595>>)>> }

(* the normal form of a plain value as the specification words it: a       *)
(* boolean or number as it is, a string by the table                       *)
StatedNormalForm(v) ==
    IF v.t # "string" THEN v
    ELSE (CHOOSE form \in StatedForms : form[1] = v)[2]

(* C21: on a present attribute, = and == are true exactly when the normal  *)
(* forms of the attribute value and of the rule value are equal.           *)
C21_EqualityAfterNormalization ==
    (pc = "done" /\ Present /\ cond.operator \in {"=", "=="}
        /\ Plain(FeatureValue) /\ Plain(cond.value)) =>
        condResult = (StatedNormalForm(FeatureValue) = StatedNormalForm(cond.value))

(* " yes " equals true *)
C21_Witness ==
    /\ pc = "done"
    /\ cond.operator = "="
    /\ FeatureValue = Str(" yes ")
    /\ cond.value = Bool(TRUE)
    /\ condResult = TRUE

-----------------------------------------------------------------------------
(* Further properties of decideFinalTypes (SpecFinal) *)

(* the eligible catalog entries that are inference types and no flow types *)
EligibleInferEntries ==
    {i \in EligibleEntries : IsInfer(Catalog[i].type_id) /\ ~IsFlow(Catalog[i].type_id)}

(* the entries among them with the smallest priority number *)
BestInferEntries ==
    {i \in EligibleInferEntries :
        \A j \in EligibleInferEntries : Catalog[i].priority <= Catalog[j].priority}

(* C22: under tone "evaluative" with more than one eligible inference type *)
(* left after the flow types are dropped, an inference type in the list is *)
(* one with the smallest priority number among them.                       *)
C22_OnlyBestInference ==
    (pc = "done" /\ Tone = Str("evaluative") /\ Cardinality(EligibleInferEntries) > 1) =>
        \A k \in 1..Len(finalTypes) :
            IsInfer(finalTypes[k]) =>
                \E i \in BestInferEntries : Catalog[i].type_id = finalTypes[k]

(* the five eligible types MAIN 1, DETAIL 2, INFER_A 5, INFER_B 3 and      *)
(* FLOW_X 4 with capacity 5: the list is MAIN, DETAIL, INFER_B, with two   *)
(* places left                                                             *)
C22_Witness ==
    /\ pc = "done"
    /\ Tone = Str("evaluative")
    /\ options = Options(Num(Len(ScenarioTypes)))
    /\ Catalog = ScenarioTypes
    /\ EligibleEntries = 1..Len(ScenarioTypes)
    /\ EligibleInferEntries = {3, 4}
    /\ BestInferEntries = {4}
    /\ finalTypes = <<"R_MAIN", "R_DETAIL", "R_INFER_B">>

(* the catalog entries that are eligible after the tone policy *)
PostPolicyEntries ==
    IF Tone # Str("evaluative") THEN EligibleEntries
    ELSE {i \in EligibleEntries :
            /\ ~IsFlow(Catalog[i].type_id)
            /\ \/ ~IsInfer(Catalog[i].type_id)
               \/ Cardinality(EligibleInferEntries) <= 1
               \/ \E j \in BestInferEntries :
                     /\ Catalog[j].type_id = Catalog[i].type_id
                     /\ \A h \in BestInferEntries : j <= h}

(* the post-policy entries whose type is left out of the list *)
LeftOutEntries == {j \in PostPolicyEntries : Catalog[j].type_id \notin Range(finalTypes)}

(* C23: a non-mandatory type of the list is the type of a post-policy      *)
(* eligible catalog entry; no post-policy eligible type left out of the    *)
(* list has a smaller priority number than it, and a list shorter than the *)
(* capacity holds every post-policy eligible type.                         *)
C23_FilledInPriorityOrder ==
    pc = "done" =>
        /\ \A k \in 1..Len(finalTypes) :
              finalTypes[k] \notin EligibleBasic =>
                  \E i \in PostPolicyEntries :
                      /\ Catalog[i].type_id = finalTypes[k]
                      /\ \A j \in LeftOutEntries : Catalog[i].priority <= Catalog[j].priority
        /\ Len(finalTypes) < Capacity => LeftOutEntries = {}

(* C25: under tone "evaluative", when eligible inference types share the   *)
(* smallest priority number, an inference type in the list is the first of *)
(* them in catalog order.                                                  *)
C25_TieKeepsFirstInCatalog ==
    (pc = "done" /\ Tone = Str("evaluative") /\ Cardinality(BestInferEntries) > 1) =>
        \A k \in 1..Len(finalTypes) :
            IsInfer(finalTypes[k]) =>
                \E i \in BestInferEntries :
                    /\ \A j \in BestInferEntries : i <= j
                    /\ Catalog[i].type_id = finalTypes[k]

(* two different inference types with the same priority number: the first  *)
(* listed is returned                                                      *)
C25_Witness ==
    /\ pc = "done"
    /\ Tone = Str("evaluative")
    /\ Len(Catalog) = 2
    /\ BestInferEntries = {1, 2}
    /\ Catalog[1].type_id # Catalog[2].type_id
    /\ finalTypes = <<Catalog[1].type_id>>

(* the elements of a rule value that is a list or a comma-separated string *)
RuleElements(value) ==
    IF value.t = "array" THEN value.a
    ELSE Untrimmed(SplitUnits(UnitsOf(value)))

(* C26: on a present attribute and a rule value that is a list or a        *)
(* comma-separated string, operator in is true exactly when operator = is  *)
(* true for at least one element of the list.                              *)
C26_InIsSomeEquality ==
    (pc = "done" /\ Present /\ cond.operator = "in"
        /\ cond.value.t \in {"array", "string"}) =>
        condResult =
            \E i \in 1..Len(RuleElements(cond.value)) :
                evaluateCondition(textFeatures, cond.feature, "=",
                                  RuleElements(cond.value)[i])

-----------------------------------------------------------------------------
(* Properties of a threshold requirement (SpecThreshold) *)

(* the one type of the catalog, its threshold and the record's value *)
ThresholdType == Catalog[1].type_id

Threshold == RequirementTable[1].value.n

Score == Own(textFeatures, "score")

(* the normal form of the record's value is a number *)
ScoreIsNumeric ==
    /\ Plain(Score)
    /\ StatedNormalForm(Score).t \in {"number", "decimal", "infinity"}

(* x >= n for a number x, whole, with a fraction or infinite, and an integer n *)
AtLeast(x, n) == ~NumberLess(x, Num(n))

(* the number the record's value is compared as: its normal form, with     *)
(* true as 1, and false and the empty string as 0; none for other text     *)
ScoreComparesAs ==
    LET nf == StatedNormalForm(Score)
    IN  CASE nf.t \in {"number", "decimal", "infinity"} -> {nf}
          [] nf.t = "boolean" -> {IF nf.b THEN Num(1) ELSE Num(0)}
       /\ ThresholdType = ForeignTypeId
       /\ Score = Num(5)
       /\ Threshold = 3
       /\ ~Marked(ThresholdType)

-----------------------------------------------------------------------------
(* A further property of determineQuestionTypes (SpecCalls) *)

(* C27: every type_id of the finalTypes returned by determineQuestionTypes *)
(* is marked true in the eligibility map returned by the same call.        *)
C27_SelectedTypesAreEligible ==
    pc = "determineQuestionTypes" =>
        \A k \in 1..Len(finalTypes) :
            Marked(finalTypes[k])

-----------------------------------------------------------------------------
(* Properties of the question service (SpecGenerate) *)

(* the type id the running or last generateQuestionByType call was given *)
CurrentTypeId == typeIds[typeIndex]

(* whether generateQuestionByType is running or has just ended *)
InsideCall == gpc \in {"attempt", "awaitCompletion", "sleep", "returned", "threw"}

(* the completion calls made so far for the current question: the attempts *)
(* that got past getOpenAIClient, the one in flight included               *)
ApiCalls ==
    Cardinality({i \in 1..Len(responses) : responses[i] # "noClient"})
        + (IF gpc = "awaitCompletion" THEN 1 ELSE 0)

NoneValid == \A i \in 1..Len(responses) : responses[i] # "valid"

(* the claim's maxRetries as a number: options.maxRetries, or the default  *)
(* of 2 where the options give none                                        *)
StatedRetries ==
    IF genOptions.t \in {"undefined", "null"} THEN Num(DefaultMaxRetries)
    ELSE IF genOptions.maxRetries.t = "undefined" THEN Num(DefaultMaxRetries)
    ELSE JsNumber(genOptions.maxRetries)

(* the attempts the claim allows: maxRetries + 1 *)
StatedAttempts == StatedRetries.n + 1

(* the attempts of the retry loop for a limit read as a number: limit + 1, *)
(* and none for a limit below 0 or one that is not a number                *)
AttemptsOf(limit) ==
    IF limit.t = "number" /\ limit.n >= 0 THEN limit.n + 1 ELSE 0

(* the call returned at its first valid response *)
ReturnedAtFirstValid ==
    /\ responses # <<>>
    /\ responses[Len(responses)] = "valid"
    /\ \A i \in 1..(Len(responses) - 1) : responses[i] # "valid"
    /\ settled.input = typeIndex

(* C28 as stated: generateQuestionByType calls the completion API at most  *)
(* maxRetries+1 times for one question, 3 times by default; it returns at  *)
(* the first attempt that parses and validates and makes no call after it; *)
(* it throws only after maxRetries+1 failed attempts; for a type without a *)
(* prompt it throws before any call.                                       *)
C28_BoundedAttempts ==
    InsideCall =>
        /\ StatedRetries.t = "number"
        /\ ApiCalls <= StatedAttempts
        /\ genOptions = Undefined => ApiCalls <= 3
        /\ (\E i \in 1..Len(responses) : responses[i] = "valid") => gpc = "returned"
        /\ gpc \in {"attempt", "awaitCompletion", "sleep"} => settled = Null
        /\ gpc = "returned" => ReturnedAtFirstValid
        /\ gpc = "threw" =>
              IF getPromptForType(CurrentTypeId) = Null
              THEN responses = <<>>
              ELSE Len(responses) = StatedAttempts /\ NoneValid
        /\ getPromptForType(CurrentTypeId) = Null => ApiCalls = 0 /\ gpc = "threw"

(* C28, amended: with options that are null generateQuestionByType throws  *)
(* a TypeError before it looks for a prompt and before any call. With      *)
(* other options it makes at most N completion calls for one question,     *)
(* where N is Number(maxRetries) + 1 for a maxRetries of 0 or more (3 by   *)
(* default) and 0 for a negative maxRetries or one that is not a number;   *)
(* it returns at the first attempt that parses and validates and makes no  *)
(* call after it; it throws only after N failed attempts; for a type       *)
(* without a prompt it throws before any call.                             *)
C28_BoundedAttemptsOfOptions ==
    InsideCall =>
        IF OptionsThrow(genOptions)
        THEN /\ gpc = "threw"
             /\ responses = <<>>
             /\ settled = OptionsTypeError(CurrentTypeId)
        ELSE /\ ApiCalls <= AttemptsOf(StatedRetries)
             /\ genOptions = Undefined => ApiCalls <= 3
             /\ (\E i \in 1..Len(responses) : responses[i] = "valid") => gpc = "returned"
             /\ gpc \in {"attempt", "awaitCompletion", "sleep"} => settled = Null
             /\ gpc = "returned" => ReturnedAtFirstValid
             /\ gpc = "threw" =>
                   IF getPromptForType(CurrentTypeId) = Null
                   THEN responses = <<>> /\ settled = UnknownTypeError(CurrentTypeId)
                   ELSE Len(responses) = AttemptsOf(StatedRetries) /\ NoneValid
             /\ getPromptForType(CurrentTypeId) = Null => ApiCalls = 0 /\ gpc = "threw"

(* with the default of two retries the second attempt is valid: the call   *)
(* returns after two completion calls and leaves the third unused          *)
C28_Witness ==
    /\ gpc = "returned"
    /\ genOptions = Undefined
    /\ responses = <<"failed", "valid">>
    /\ ApiCalls = 2

(* the positions of typeIds that the entries of a list stand for *)
Inputs(list) == {list[k].input : k \in 1..Len(list)}

(* the entries of a list follow the order of the input *)
InInputOrder(list) ==
    \A j, k \in 1..Len(list) : j < k => list[j].input < list[k].input

(* C29: generateQuestions takes the type ids in order, one at a time, and  *)
(* goes on after a failure: on return every input type id has exactly one  *)
(* entry, in questions or in errors, summary.total = summary.success +     *)
(* summary.failed = the number of input type ids, and questions keep the   *)
(* input order.                                                            *)
C29_EveryTypeAccounted ==
    /\ gpc \in {"loop", "done"} =>
          Len(questions) + Len(errors) = typeIndex
    /\ gpc \in {"attempt", "awaitCompletion", "sleep", "returned", "threw"} =>
          Len(questions) + Len(errors) = typeIndex - 1
    /\ gpc = "done" =>
          /\ typeIndex = Len(typeIds)
          /\ Inputs(questions) \cup Inputs(errors) = 1..Len(typeIds)
          /\ Inputs(questions) \cap Inputs(errors) = {}
          /\ Cardinality(Inputs(questions)) = Len(questions)
          /\ Cardinality(Inputs(errors)) = Len(errors)
          /\ InInputOrder(questions)
          /\ InInputOrder(errors)
          /\ \A k \in 1..Len(errors) :
                errors[k].type_id = Str(typeIds[errors[k].input])
          /\ summary.total = Len(typeIds)
          /\ summary.success = Len(questions)
          /\ summary.failed = Len(errors)
          /\ summary.total = summary.success + summary.failed

(* the first type fails, the second still gets its question *)
C29_Witness ==
    /\ gpc = "done"
    /\ Len(typeIds) = 2
    /\ Len(errors) = 1
    /\ errors[1].input = 1
    /\ Len(questions) = 1
    /\ questions[1].input = 2
    /\ summary = [total |-> 2, success |-> 1, failed |-> 1]

-----------------------------------------------------------------------------
(* Properties of the calendar server (SpecCalendar) *)

(* the add-schedule request h was answered { success: true } and neither   *)
(* its read nor its write failed                                           *)
Succeeded(h) ==
    /\ handlers[h].route = "addSchedule"
    /\ handlers[h].pc = "responded"
    /\ handlers[h].status = 200
    /\ handlers[h].readOk
    /\ handlers[h].saveOk

(* the schedule of request h is in the stored data of its date *)
Stored(h) ==
    \E k \in 1..Len(SchedulesOf(store, handlers[h].date)) :
        SchedulesOf(store, handlers[h].date)[k].id = h

(* C30: when two add-schedule requests are handled concurrently and both   *)
(* respond success, the stored calendar data afterwards holds both         *)
(* schedules, whatever the interleaving of their reads and writes.         *)
C30_NoLostUpdate ==
    \A g, h \in 1..MaxRequests :
        (g # h /\ Succeeded(g) /\ Succeeded(h)
            /\ \A j \in 1..MaxRequests : handlers[j].pc = "responded")
        => Stored(g) /\ Stored(h)

=============================================================================
